---- MODULE Spec2Model ----
(***************************************************************************)
(* The anomaly scorer of ai/anomaly.py (recompute_anomalies) over the      *)
(* SQLite mart, with its callers: the /anomalies endpoints, the on-demand  *)
(* scorer run of explain_kpi, and the connection handling of api/db.py.    *)
(*                                                                         *)
(* Numbers.  KPI values are float64 in the code.  Here a value is an       *)
(* integer count of units of 1/ValueScale, and every derived quantity is   *)
(* kept as an exact rational (or the square root of one), so "score >      *)
(* threshold" and round(x, 4) are decided exactly, on the reals.  Binary   *)
(* floating-point error (a tie that a double misses by one ulp) is not     *)
(* modelled, with one exception: whether the standard deviation of a       *)
(* constant window is 0.0 is decided in float64, as line 68 tests it.      *)
(* Thresholds and recorded scores are integers in units of                 *)
(* 1/ScoreScale = 10^-4.                                                   *)
(*                                                                         *)
(* Dates are day ordinals: the ETL writes every date as an ISO string      *)
(* (load_mart.py, generate_sample_data.py), for which pd.to_datetime       *)
(* followed by .date().isoformat() gives the same string back.             *)
(***************************************************************************)
EXTENDS Integers, Sequences, FiniteSets, TLC

----------------------------------------------------------------------------
(* Units and program constants *)

\* round(x, 4): the number of decimals of every recorded value, baseline and score
Decimals == 4

ScoreScale == 10 ^ Decimals

\* a stored value v stands for v / ValueScale
ValueScale == 10 ^ 5

\* 1.4826 = MadFactor / ScoreScale
MadFactor == 14826

\* 1e-9 = 1 / EpsInv
EpsInv == 1000000000

\* the defaults of recompute_anomalies
DefaultThreshold == 3 * ScoreScale

DefaultWindowDays == 14

DefaultMinHistory == 14

NULL == "NULL"

----------------------------------------------------------------------------
(* Exact arithmetic *)

Max(a, b) == IF a >= b THEN a ELSE b

Min(a, b) == IF a <= b THEN a ELSE b

Abs(x) == IF x < 0 THEN -x ELSE x

Range(s) == {s[i] : i \in DOMAIN s}

RECURSIVE SumSeq(_)
SumSeq(s) == IF s = <<>> THEN 0 ELSE Head(s) + SumSeq(Tail(s))

\* p/q > r/s for p, r >= 0 and q, s > 0, by continued fractions: no product is
\* formed, so the comparison is exact for all operands that are themselves
\* representable
RECURSIVE GreaterFrac(_, _, _, _)
GreaterFrac(p, q, r, s) ==
    LET a == p \div q
        b == r \div s
        pr == p % q
        rr == r % s
    IN  IF a # b THEN a > b
        ELSE IF pr = 0 THEN FALSE
        ELSE IF rr = 0 THEN TRUE
        ELSE GreaterFrac(s, rr, q, pr)

\* floor(sqrt(n))
RECURSIVE Isqrt(_)
Isqrt(n) ==
    IF n < 2 THEN n
    ELSE LET r == 2 * Isqrt(n \div 4)
         IN  IF (r + 1) * (r + 1) <= n THEN r + 1 ELSE r

\* <<floor(p * 10^n / q) continued from the quotient so far, last remainder>>
RECURSIVE DivDigits(_, _, _, _)
DivDigits(quot, rem, q, n) ==
    IF n = 0 THEN <<quot, rem>>
    ELSE DivDigits(10 * quot + (10 * rem) \div q, (10 * rem) % q, q, n - 1)

\* round-half-to-even of p/q (p >= 0, q > 0), as Python's round() on the exact value
RoundDiv(p, q) ==
    LET f == p \div q
        r == p % q
    IN  IF 2 * r < q THEN f
        ELSE IF 2 * r > q THEN f + 1
        ELSE IF f % 2 = 0 THEN f ELSE f + 1

\* round(p/q, Decimals) in units of 1/ScoreScale, by long division
Round4Frac(p, q) ==
    LET d == DivDigits((2 * p) \div q, (2 * p) % q, q, Decimals)
        f == d[1]
        h == f \div 2
    IN  IF f % 2 = 0 THEN h
        ELSE IF d[2] # 0 THEN h + 1
        ELSE IF h % 2 = 0 THEN h ELSE h + 1

----------------------------------------------------------------------------
(* Evaluation helpers *)

\* the sequence f with every element computed once
RECURSIVE Materialise(_, _)
Materialise(f, k) == IF k > Len(f) THEN <<>> ELSE <<f[k]>> \o Materialise(f, k + 1)

\* Body of a local variable of the code: value is evaluated once, as the assignment
\* evaluates it, however often Body reads it
Once(value, Body(_)) == CHOOSE result \in {Body(v) : v \in {value}} : TRUE

----------------------------------------------------------------------------
(* float64 sums of baseline means (drivers.py lines 51-62).  A double is    *)
(* held as the integer n with value n / 2^60, in four limbs of 20 bits, the *)
(* most significant first; every value here is a multiple of 2^-60 below    *)
(* 2^12, which covers the quotients and sums of the counts of the model.    *)

LimbBits == 20

LimbBase == 2 ^ LimbBits

\* the significand of a float64
Significand == 53

RECURSIVE BitLen(_)
BitLen(n) == IF n = 0 THEN 0 ELSE 1 + BitLen(n \div 2)

LimbsBitLen(x) ==
    IF x[1] > 0 THEN 3 * LimbBits + BitLen(x[1])
    ELSE IF x[2] > 0 THEN 2 * LimbBits + BitLen(x[2])
    ELSE IF x[3] > 0 THEN LimbBits + BitLen(x[3])
    ELSE BitLen(x[4])

Carry(x) ==
    LET n4 == x[4]
        n3 == x[3] + n4 \div LimbBase
        n2 == x[2] + n3 \div LimbBase
        n1 == x[1] + n2 \div LimbBase
    IN  <<n1, n2 % LimbBase, n3 % LimbBase, n4 % LimbBase>>

\* round to nearest, ties to even, at Significand bits; sticky: bits were lost below
Round53(x, sticky) ==
    Once(LimbsBitLen(x) - Significand, LAMBDA d :
        IF d <= 0 THEN x
        ELSE LET low == x[4] % (2 ^ d)
                 half == 2 ^ (d - 1)
                 odd == (x[4] \div (2 ^ d)) % 2 = 1
                 up == low > half \/ (low = half /\ (sticky \/ odd))
             IN  Carry(<<x[1], x[2], x[3], x[4] - low + (IF up THEN 2 ^ d ELSE 0)>>))

FloatOfInt(n) == <<n, 0, 0, 0>>

\* the double nearest to s / k, for integers s >= 0 and k > 0
FloatDiv(s, k) ==
    LET q3 == s \div k
        r3 == s % k
        q2 == (r3 * LimbBase) \div k
        r2 == (r3 * LimbBase) % k
        q1 == (r2 * LimbBase) \div k
        r1 == (r2 * LimbBase) % k
        q0 == (r1 * LimbBase) \div k
        r0 == (r1 * LimbBase) % k
    IN  Once(<<q3, q2, q1, q0>>, LAMBDA quotient : Round53(quotient, r0 # 0))

FloatAdd(x, y) ==
    Once(<<x, y>>, LAMBDA a :
    Once(Carry(<<a[1][1] + a[2][1], a[1][2] + a[2][2], a[1][3] + a[2][3],
                 a[1][4] + a[2][4]>>), LAMBDA sum :
        Round53(sum, FALSE)))

RECURSIVE FloatLess(_, _)
FloatLess(x, y) ==
    IF x = <<>> THEN FALSE
    ELSE IF Head(x) # Head(y) THEN Head(x) < Head(y)
    ELSE FloatLess(Tail(x), Tail(y))

\* Series.sum() of a short float64 column: the elements are added from the first on
RECURSIVE FloatSum(_)
FloatSum(xs) ==
    Once(xs, LAMBDA column :
        IF column = <<>> THEN FloatOfInt(0)
        ELSE Once(FloatSum(SubSeq(column, 1, Len(column) - 1)), LAMBDA sum :
                 FloatAdd(sum, column[Len(column)])))

----------------------------------------------------------------------------
(* float64 standard deviation of a constant window (anomaly.py line 67).  The *)
(* doubles here are held as the integer n with value n / 2^80 in the same     *)
(* four limbs; rounding and addition do not depend on the unit.  The values   *)
(* lie below 2^-8, so that the bits a rounding drops are in the last limb.    *)

\* the first `count` digits in base 2^10 of rem / k after the point, and what remains
RECURSIVE ShiftDivide(_, _, _)
ShiftDivide(rem, k, count) ==
    IF count = 0 THEN <<<<>>, rem>>
    ELSE Once(rem * 2 ^ 10, LAMBDA shifted :
         Once(ShiftDivide(shifted % k, k, count - 1), LAMBDA rest :
             <<<<shifted \div k>> \o rest[1], rest[2]>>))

\* an observation of the frame as float64: the double nearest to value / ValueScale
DoubleOf(value) ==
    Once(ShiftDivide(value, ValueScale, 8), LAMBDA d :
        Round53(<<d[1][1] * 2 ^ 10 + d[1][2], d[1][3] * 2 ^ 10 + d[1][4],
                  d[1][5] * 2 ^ 10 + d[1][6], d[1][7] * 2 ^ 10 + d[1][8]>>, d[2] # 0))

\* the double nearest to x / n, for a double x and an integer n > 0
FloatDivBy(x, n) ==
    Once(x, LAMBDA v :
    Once(<<v[1] \div n, v[1] % n>>, LAMBDA a :
    Once(<<(a[2] * LimbBase + v[2]) \div n, (a[2] * LimbBase + v[2]) % n>>, LAMBDA b :
    Once(<<(b[2] * LimbBase + v[3]) \div n, (b[2] * LimbBase + v[3]) % n>>, LAMBDA c :
    Once(<<(c[2] * LimbBase + v[4]) \div n, (c[2] * LimbBase + v[4]) % n>>, LAMBDA d :
        Round53(<<a[1], b[1], c[1], d[1]>>, d[2] # 0))))))

\* start + xs[1] + ... + xs[n], added in this order
RECURSIVE FloatSumFrom(_, _)
FloatSumFrom(start, xs) ==
    Once(xs, LAMBDA column :
        IF column = <<>> THEN start
        ELSE Once(FloatSumFrom(start, SubSeq(column, 1, Len(column) - 1)), LAMBDA sum :
                 FloatAdd(sum, column[Len(column)])))

\* ndarray.sum() of a contiguous float64 column of at most 128 elements (numpy's
\* pairwise summation): fewer than 8 elements are added from the first on; otherwise
\* 8 running sums take every 8th element of the full blocks of 8 and are added in
\* pairs, and the elements after the last full block are added on
NumpySum(xs) ==
    Once(xs, LAMBDA column :
        IF Len(column) < 8 THEN FloatSum(column)
        ELSE Once(Materialise([j \in 1 .. 8 |->
                      FloatSum(Materialise([b \in 1 .. Len(column) \div 8 |->
                                               column[8 * (b - 1) + j]], 1))], 1),
                  LAMBDA r :
             Once(FloatAdd(FloatAdd(FloatAdd(r[1], r[2]), FloatAdd(r[3], r[4])),
                           FloatAdd(FloatAdd(r[5], r[6]), FloatAdd(r[7], r[8]))),
                  LAMBDA res :
                 FloatSumFrom(res, SubSeq(column, 8 * (Len(column) \div 8) + 1,
                                          Len(column))))))

\* line 67 over a window of n observations that all equal value: pandas computes
\* sqrt(sum((avg - x) ** 2) / n) with avg = x.sum() / n in float64, which is 0.0
\* exactly when the rounded mean is the double of the value itself
ConstantStdIsZero(value, n) ==
    \/ value = 0
    \/ Once(DoubleOf(value), LAMBDA x :
            FloatDivBy(NumpySum(Materialise([i \in 1 .. n |-> x], 1)), n) = x)

\* the constant windows <<value, length>> up to 2 * DefaultWindowDays value units and
\* DefaultWindowDays observations whose float64 standard deviation is not 0.0
ResidueWindows ==
    {w \in (0 .. 2 * DefaultWindowDays) \X (1 .. DefaultWindowDays) :
        ~ConstantStdIsZero(w[1], w[2])}

\* std > 0 of line 68 for a window of n observations that all equal value
ConstantStdIsPositive(value, n) ==
    IF value \in 0 .. 2 * DefaultWindowDays /\ n \in 1 .. DefaultWindowDays
    THEN <<value, n>> \in ResidueWindows
    ELSE ~ConstantStdIsZero(value, n)

----------------------------------------------------------------------------
(* The robust score of one observation (anomaly.py lines 54-71) *)

\* the k-th smallest element of a non-empty sequence of integers
Kth(xs, k) ==
    CHOOSE x \in Range(xs) :
        /\ Cardinality({i \in DOMAIN xs : xs[i] < x}) < k
        /\ Cardinality({i \in DOMAIN xs : xs[i] <= x}) >= k

\* twice the median (pandas/numpy median: the mean of the two middle elements
\* when the length is even)
Median2(xs) ==
    LET n == Len(xs)
    IN  IF n % 2 = 1 THEN 2 * Kth(xs, (n + 1) \div 2)
        ELSE Kth(xs, n \div 2) + Kth(xs, n \div 2 + 1)

\* values.iloc[max(0, idx - window_days):idx], idx counted from 0; a start
\* at or beyond idx gives the empty slice
HistoryThroughCurrent(values, idx, window_days) ==
    SubSeq(values, Max(0, idx - window_days) + 1, idx + 1)

History(values, idx, window_days) ==
    SubSeq(values, Max(0, idx - window_days) + 1, idx)

\* n^2 times the population variance (ddof = 0) of xs: n*sum(x^2) - sum(x)^2
VarianceN2(xs) ==
    LET n == Len(xs)
        s1 == SumSeq(xs)
        s2 == SumSeq([i \in DOMAIN xs |-> xs[i] * xs[i]])
    IN  n * s2 - s1 * s1

\* 2 * baseline, in value units
Baseline2(hist) == Median2(hist)

\* 4 * MAD, in value units: MAD = median(|x - baseline|)
Mad4(hist) ==
    LET b2 == Baseline2(hist)
    IN  Median2([i \in DOMAIN hist |-> Abs(2 * hist[i] - b2)])

\* The score of `current` against the window `hist`, kept exact:
\*   kind "nan": the window is empty (median of nothing), score is NaN
\*   kind "mad": score = (c2/2) / (1.4826 * mad4/4)
\*   kind "std": MAD = 0, std > 0: score = (c2/2) / (sqrt(v) / n)
\*   kind "residue": MAD = 0 over a constant window whose float64 std is not 0.0 but
\*                 the rounding error of the window's mean: score = (c2/2) / std
\*   kind "eps": MAD = 0, std = 0.0: score = (c2/2 value units) / 1e-9
\* where c2 = 2 * |current - baseline|.
Score(hist, current) ==
    IF hist = <<>> THEN [kind |-> "nan", c2 |-> 0, mad4 |-> 0, n |-> 0, v |-> 0]
    ELSE LET b2 == Baseline2(hist)
             mad4 == Mad4(hist)
             v == VarianceN2(hist)
             c2 == Abs(2 * current - b2)
         IN  [kind |-> IF mad4 # 0 THEN "mad"
                       ELSE IF v > 0 THEN "std"
                       ELSE IF ConstantStdIsPositive(hist[1], Len(hist)) THEN "residue"
                       ELSE "eps",
              c2 |-> c2, mad4 |-> mad4, n |-> Len(hist), v |-> v]

\* the denominator is strictly positive (NaN aside): 1.4826*MAD, std or 1e-9
EpsGain == EpsInv \div (2 * ValueScale)

\* the comparison of line 73 on a score without the factor 1.4826 of line 71
ScoreExceedsWithoutMadFactor(s, threshold) ==
    IF s.kind = "nan" THEN FALSE
    ELSE IF threshold < 0 THEN TRUE
    ELSE IF s.kind = "mad"
    THEN GreaterFrac(2 * s.c2, s.mad4, threshold, ScoreScale)
    ELSE IF s.kind = "std"
    THEN LET num == ScoreScale * s.c2 * s.n
             den == 2 * threshold
         IN  IF num = 0 THEN FALSE
             ELSE IF den = 0 THEN TRUE
             ELSE GreaterFrac(num, den, s.v * den, num)
    ELSE IF s.kind = "residue" THEN s.c2 > 0
    ELSE s.c2 * EpsGain * ScoreScale > threshold

\* score > threshold, threshold in units of 1/ScoreScale
ScoreExceeds(s, threshold) ==
    IF s.kind = "nan" THEN FALSE
    ELSE IF threshold < 0 THEN TRUE
    ELSE IF s.kind = "mad"
    THEN GreaterFrac(2 * s.c2 * ScoreScale, MadFactor * s.mad4, threshold, ScoreScale)
    ELSE IF s.kind = "std"
    THEN LET num == ScoreScale * s.c2 * s.n
             den == 2 * threshold
         IN  IF num = 0 THEN FALSE
             ELSE IF den = 0 THEN TRUE
             ELSE GreaterFrac(num, den, s.v * den, num)
    ELSE IF s.kind = "residue" THEN s.c2 > 0
    ELSE s.c2 * EpsGain * ScoreScale > threshold

\* (2k - 1) * sqrt(v) <= num, i.e. k - 1/2 <= num / (2 sqrt(v))
HalfBelow(k, num, v) ==
    k = 0 \/ ~GreaterFrac((2 * k - 1) * v, num, num, 2 * k - 1)

RECURSIVE SearchRound(_, _, _, _)
SearchRound(lo, hi, num, v) ==
    IF lo >= hi THEN lo
    ELSE LET mid == (lo + hi + 1) \div 2
         IN  IF HalfBelow(mid, num, v) THEN SearchRound(mid, hi, num, v)
             ELSE SearchRound(lo, mid - 1, num, v)

\* round(num / (2 sqrt(v))) for num >= 0, v >= 1, ties to even
RoundSqrt(num, v) ==
    IF num = 0 THEN 0
    ELSE LET k == SearchRound(0, num \div (2 * Isqrt(v)) + 1, num, v)
             tie == k > 0 /\ ~GreaterFrac(num, 2 * k - 1, (2 * k - 1) * v, num)
         IN  IF tie /\ k % 2 = 1 THEN k - 1 ELSE k

\* a difference of at least one value unit over a rounding residue (below 2^-52 of
\* the window's value) is beyond every threshold and every score over 1e-9; it is
\* kept as ScoreCap, in units of 1/ScoreScale
ScoreCap == 2 * 10 ^ 9

\* round(score, 4), in units of 1/ScoreScale
ScoreRound4(s) ==
    IF s.kind = "mad" THEN Round4Frac(2 * s.c2 * ScoreScale, MadFactor * s.mad4)
    ELSE IF s.kind = "std" THEN RoundSqrt(ScoreScale * s.c2 * s.n, s.v)
    ELSE IF s.kind = "eps" THEN s.c2 * EpsGain * ScoreScale
    ELSE IF s.kind = "residue" THEN (IF s.c2 > 0 THEN ScoreCap ELSE 0)
    ELSE 0

\* round(float(value), 4) and round(baseline, 4), in units of 1/ScoreScale
ValueRound4(value) == RoundDiv(value * ScoreScale, ValueScale)

BaselineRound4(b2) == RoundDiv(b2 * ScoreScale, 2 * ValueScale)

----------------------------------------------------------------------------
(* The scorer over a frame of KPI observations (anomaly.py lines 16-99) *)

\* the KPI names of the mart, in the order groupby("kpi_name") visits them
KpiOrder == <<"exception_rate_per_100_jobs", "sla_breach_rate_pct">>

KpiNames == Range(KpiOrder)

\* a name no observation carries
UnknownKpi == "no_such_kpi"

\* SELECT kpi_name, date, value FROM fact_kpi_daily [WHERE kpi_name IN (...)]:
\* kpi_names is the set of names of the list; None and [] are both falsy
ReadFrame(facts, kpi_names) ==
    IF kpi_names = {} THEN facts ELSE {r \in facts : r.kpi_name \in kpi_names}

\* group.sort_values("date").reset_index(drop=True): the rows before the one of
\* middle rank, that row, the rows after it
RECURSIVE SortByDate(_)
SortByDate(rows) ==
    IF rows = {} THEN <<>>
    ELSE LET mid == CHOOSE r \in rows :
                        /\ 2 * Cardinality({o \in rows : o.date < r.date}) <= Cardinality(rows)
                        /\ 2 * Cardinality({o \in rows : o.date > r.date}) <= Cardinality(rows)
         IN  SortByDate({o \in rows : o.date < mid.date})
             \o <<mid>> \o SortByDate({o \in rows \ {mid} : o.date = mid.date})
             \o SortByDate({o \in rows : o.date > mid.date})

\* the lookup by scenario_date alone
ScenarioLookupByDate(registry, kpi_name, date) ==
    LET hits == {i \in DOMAIN registry :
                    /\ registry[i].kpi_name # NULL
                    /\ registry[i].scenario_date = date}
    IN  IF hits = {} THEN NULL
        ELSE registry[CHOOSE i \in hits : \A j \in hits : j <= i].scenario_tag

\* _load_scenario_lookup: a dict keyed by (kpi_name, scenario_date); rows with a
\* falsy kpi_name are skipped and a later row overwrites an earlier one.
\* .get() gives None (NULL) when no row matches.
ScenarioLookup(registry, kpi_name, date) ==
    LET hits == {i \in DOMAIN registry :
                    /\ registry[i].kpi_name # NULL
                    /\ registry[i].kpi_name = kpi_name
                    /\ registry[i].scenario_date = date}
    IN  IF hits = {} THEN NULL
        ELSE registry[CHOOSE i \in hits : \A j \in hits : j <= i].scenario_tag

ValuesOf(rows) == [i \in DOMAIN rows |-> rows[i].value]

\* the scorer with the window check of lines 60-61 left out
EvaluatedWithoutWindowCheck(values, idx, window_days, min_history) ==
    ~(idx < min_history)

\* lines 55-61: the index is scored only with min_history observations before it,
\* all inside the trailing window
Evaluated(values, idx, window_days, min_history) ==
    /\ ~(idx < min_history)
    /\ ~(Len(History(values, idx, window_days)) < min_history)

ScoreAt(values, idx, window_days) ==
    Score(History(values, idx, window_days), values[idx + 1])

\* the scorer with the comparison of line 73 inverted (score <= threshold)
FlaggedBelowThreshold(values, idx, threshold, window_days, min_history) ==
    /\ Evaluated(values, idx, window_days, min_history)
    /\ ScoreAt(values, idx, window_days).kind # "nan"
    /\ ~ScoreExceeds(ScoreAt(values, idx, window_days), threshold)

\* the scorer with the comparison of line 73 made non-strict (score >= threshold, to one
\* unit of the threshold's last decimal)
FlaggedAtThreshold(values, idx, threshold, window_days, min_history) ==
    /\ Evaluated(values, idx, window_days, min_history)
    /\ ScoreAt(values, idx, window_days).kind # "nan"
    /\ ScoreExceeds(ScoreAt(values, idx, window_days), threshold - 1)

\* line 73
Flagged(values, idx, threshold, window_days, min_history) ==
    /\ Evaluated(values, idx, window_days, min_history)
    /\ ScoreExceeds(ScoreAt(values, idx, window_days), threshold)

\* lines 74-86
Record(kpi_name, rows, idx, window_days, registry, created_at) ==
    LET values == ValuesOf(rows)
        hist == History(values, idx, window_days)
    IN  [kpi_name |-> kpi_name,
         date |-> rows[idx + 1].date,
         value |-> ValueRound4(values[idx + 1]),
         baseline |-> BaselineRound4(Baseline2(hist)),
         score |-> ScoreRound4(Score(hist, values[idx + 1])),
         status |-> "open",
         scenario_tag |-> ScenarioLookup(registry, kpi_name, rows[idx + 1].date),
         created_at |-> created_at]

\* the inner loop, lines 54-99: for idx in range(len(values)), here over the indices
\* lo .. hi - 1, the records of the lower half before those of the upper half
RECURSIVE ScanSeries(_, _, _, _, _)
ScanSeries(kpi_name, rows, p, lo, hi) ==
    IF lo >= hi THEN <<>>
    ELSE IF hi = lo + 1
    THEN (IF Flagged(ValuesOf(rows), lo, p.threshold, p.window_days, p.min_history)
          THEN <<Record(kpi_name, rows, lo, p.window_days, p.registry, p.created_at)>>
          ELSE <<>>)
    ELSE ScanSeries(kpi_name, rows, p, lo, (lo + hi) \div 2)
         \o ScanSeries(kpi_name, rows, p, (lo + hi) \div 2, hi)

\* the outer loop, line 51: for kpi_name, group in frame.groupby("kpi_name")
RECURSIVE ScanGroups(_, _, _)
ScanGroups(frame, p, k) ==
    IF k > Len(KpiOrder) THEN <<>>
    ELSE LET group == {r \in frame : r.kpi_name = KpiOrder[k]}
         IN  (IF group = {} THEN <<>>
              ELSE ScanSeries(KpiOrder[k], SortByDate(group), p, 0, Cardinality(group)))
             \o ScanGroups(frame, p, k + 1)

\* anomaly_rows / out of one call: the flagged records in visiting order
ComputeRows(facts, registry, threshold, window_days, min_history, kpi_names, created_at) ==
    ScanGroups(ReadFrame(facts, kpi_names),
               [threshold |-> threshold, window_days |-> window_days,
                min_history |-> min_history, registry |-> registry,
                created_at |-> created_at],
               1)

----------------------------------------------------------------------------
(* Exact fractions <<p, q>> with q > 0, in lowest terms, for the rates, means *)
(* and shares of ai/drivers.py                                                *)

RECURSIVE Gcd(_, _)
Gcd(a, b) == IF b = 0 THEN a ELSE Once(a % b, LAMBDA r : Gcd(b, r))

Sign(x) == IF x < 0 THEN -1 ELSE IF x > 0 THEN 1 ELSE 0

Frac(p, q) ==
    Once(<<p, q>>, LAMBDA f :
    Once(Gcd(Abs(f[1]), Abs(f[2])), LAMBDA g :
        <<Sign(f[1]) * Sign(f[2]) * (Abs(f[1]) \div g), Abs(f[2]) \div g>>))

FracOfInt(n) == <<n, 1>>

FracAdd(x, y) == Frac(x[1] * y[2] + y[1] * x[2], x[2] * y[2])

FracSub(x, y) == Frac(x[1] * y[2] - y[1] * x[2], x[2] * y[2])

FracMul(x, y) == Frac(x[1] * y[1], x[2] * y[2])

\* x / y for y # 0
FracDiv(x, y) == Frac(x[1] * y[2], x[2] * y[1])

FracAbs(x) == <<Abs(x[1]), x[2]>>

FracLess(x, y) == x[1] * y[2] < y[1] * x[2]

FracMax(x, y) == IF FracLess(x, y) THEN y ELSE x

\* round(x, digits) in units of 10^-digits, ties to even, by long division
RoundFrac(x, digits) ==
    Once(x, LAMBDA v :
    Once(DivDigits((2 * Abs(v[1])) \div v[2], (2 * Abs(v[1])) % v[2], v[2], digits),
         LAMBDA d :
        LET f == d[1]
            h == f \div 2
            m == IF f % 2 = 0 THEN h
                 ELSE IF d[2] # 0 THEN h + 1
                 ELSE IF h % 2 = 0 THEN h ELSE h + 1
        IN  Sign(v[1]) * m))

----------------------------------------------------------------------------
(* Driver attribution (ai/drivers.py).  db is the mart the connection reads: *)
(* [fact_jobs, fact_comms, fact_incidents], the dimension tables folded into *)
(* the fact rows (every *_id of a fact row carries the name it joins to).    *)

RateKpis == {"sla_breach_rate_pct", "exception_rate_per_100_jobs"}

DataQualityKpi == "data_quality_score"

\* a target_date string that date.fromisoformat rejects; dates are day ordinals >= 1
NotADate == 0

\* SQL NULL / Python None in a numeric column or field
Null == <<>>

Some(v) == <<v>>

\* the segment labels in the order of Python's string comparison
SegmentOrder ==
    <<"Ambient", "Damage", "Delivery", "EastLine", "Gold", "Leeds", "No comm category",
      "No incident", "NorthHaul", "SouthFreight", "Unknown", "Unknown carrier",
      "Unknown product", "York">>

SegmentRank(s) == CHOOSE i \in DOMAIN SegmentOrder : SegmentOrder[i] = s

\* lines 111-157; a segment_expr is a column, wrapped in COALESCE(column, coalesce)
\* when coalesce is not NULL
DimensionQueryConfig(dimension, column, coalesce, from_clause) ==
    [dimension |-> dimension, column |-> column, coalesce |-> coalesce,
     from_clause |-> from_clause]

DimensionConfigsForKpi(kpi_name) ==
    IF kpi_name = "sla_breach_rate_pct"
    THEN <<DimensionQueryConfig("site", "site_name", NULL, "fact_comms"),
           DimensionQueryConfig("customer_tier", "tier", NULL, "fact_comms"),
           DimensionQueryConfig("category", "category_name", NULL, "fact_comms"),
           DimensionQueryConfig("incident_type", "incident_type", "No incident", "fact_comms"),
           DimensionQueryConfig("carrier", "carrier_name", "Unknown carrier", "fact_comms"),
           DimensionQueryConfig("product_family", "product_family", "Unknown product",
                                "fact_comms")>>
    ELSE IF kpi_name = "exception_rate_per_100_jobs"
    THEN <<DimensionQueryConfig("site", "site_name", NULL, "fact_jobs"),
           DimensionQueryConfig("customer_tier", "tier", NULL, "fact_jobs"),
           DimensionQueryConfig("category", "category_name", "No comm category", "fact_jobs"),
           DimensionQueryConfig("incident_type", "incident_type", "No incident", "fact_jobs"),
           DimensionQueryConfig("carrier", "carrier_name", NULL, "fact_jobs"),
           DimensionQueryConfig("product_family", "product_family", NULL, "fact_jobs")>>
    ELSE <<>>

\* the row a LEFT JOIN supplies when nothing matches
NoIncident == [incident_id |-> 0, job_id |-> 0, incident_type |-> NULL]

NoComm == [comm_id |-> 0, job_id |-> 0, date |-> 0, site_name |-> NULL, tier |-> NULL,
           category_name |-> NULL, carrier_name |-> NULL, product_family |-> NULL,
           sla_sensitive_bool |-> 0, breached_bool |-> 0]

IncidentsOf(db, job_id) ==
    LET hit == {i \in db.fact_incidents : i.job_id = job_id}
    IN  IF hit = {} THEN {NoIncident} ELSE hit

CommsOf(db, job_id, date) ==
    LET hit == {c \in db.fact_comms : c.job_id = job_id /\ c.date = date}
    IN  IF hit = {} THEN {NoComm} ELSE hit

\* lines 113-124: the rows of the FROM clause of sla_breach_rate_pct with what the
\* numerator and the denominator SUM count of each (Null: the CASE gives 0)
CommsJoin(db) ==
    UNION {{[date |-> fc.date, site_name |-> fc.site_name, tier |-> fc.tier,
             category_name |-> fc.category_name, incident_type |-> fi.incident_type,
             carrier_name |-> fc.carrier_name, product_family |-> fc.product_family,
             numerator |-> IF fc.sla_sensitive_bool = 1 /\ fc.breached_bool = 1
                           THEN Some(<<fc.comm_id, fi.incident_id>>) ELSE Null,
             denominator |-> IF fc.sla_sensitive_bool = 1
                             THEN Some(<<fc.comm_id, fi.incident_id>>) ELSE Null] :
               fi \in IncidentsOf(db, fc.job_id)} : fc \in db.fact_comms}

\* lines 135-147: the rows of the FROM clause of exception_rate_per_100_jobs with what
\* COUNT(DISTINCT fi.incident_id) and COUNT(DISTINCT fj.job_id) count of each
JobsJoin(db) ==
    UNION {{[date |-> fj.date, site_name |-> fj.site_name, tier |-> fj.tier,
             category_name |-> p[2].category_name, incident_type |-> p[1].incident_type,
             carrier_name |-> fj.carrier_name, product_family |-> fj.product_family,
             numerator |-> IF p[1] = NoIncident THEN Null ELSE Some(p[1].incident_id),
             denominator |-> Some(fj.job_id)] :
               p \in IncidentsOf(db, fj.job_id) \X CommsOf(db, fj.job_id, fj.date)} :
           fj \in db.fact_jobs}

\* the rows of the FROM clause of a KPI's queries, the same for all its dimensions
FromClause(db, kpi_name) ==
    Once(db, LAMBDA mart :
        IF kpi_name = "sla_breach_rate_pct" THEN CommsJoin(mart) ELSE JobsJoin(mart))

SegmentExpr(row, cfg) ==
    IF row[cfg.column] = NULL /\ cfg.coalesce # NULL THEN cfg.coalesce ELSE row[cfg.column]

\* SUM(CASE ...) over the rows of a group, or COUNT(DISTINCT ...)
Aggregate(rows, column) == Cardinality({r[column] : r \in rows} \ {Null})

\* lines 175-183 and 195
AnomalyQuery(joined, cfg, target_date) ==
    Once({r \in joined : r.date = target_date}, LAMBDA hit :
        {[segment |-> s,
          numerator |-> Aggregate({r \in hit : SegmentExpr(r, cfg) = s}, "numerator"),
          denominator |-> Aggregate({r \in hit : SegmentExpr(r, cfg) = s}, "denominator")] :
            s \in {SegmentExpr(r, cfg) : r \in hit}})

\* lines 184-193 and 196
BaselineQuery(joined, cfg, baseline_start, baseline_end) ==
    Once({r \in joined : r.date \in baseline_start .. baseline_end}, LAMBDA hit :
        {[baseline_date |-> g[1], segment |-> g[2],
          numerator |-> Aggregate({r \in hit : r.date = g[1] /\ SegmentExpr(r, cfg) = g[2]},
                                  "numerator"),
          denominator |-> Aggregate({r \in hit : r.date = g[1] /\ SegmentExpr(r, cfg) = g[2]},
                                    "denominator")] :
            g \in {<<r.date, SegmentExpr(r, cfg)>> : r \in hit}})

\* lines 21-24
SafeRate(numerator, denominator) ==
    IF denominator[1] = 0 THEN FracOfInt(0) ELSE FracDiv(numerator, denominator)

\* lines 48-49
FillSegment(s) == IF s = NULL THEN "Unknown" ELSE s

RECURSIVE SumOver(_, _)
SumOver(rows, column) ==
    IF rows = {} THEN 0
    ELSE Once(CHOOSE x \in rows : TRUE, LAMBDA r :
             r[column] + SumOver(rows \ {r}, column))

\* the keys of an outer merge: the union of the segments, sorted
RECURSIVE SortSegments(_)
SortSegments(segments) ==
    IF segments = {} THEN <<>>
    ELSE Once(CHOOSE x \in segments : \A y \in segments : SegmentRank(x) <= SegmentRank(y),
              LAMBDA s : <<s>> \o SortSegments(segments \ {s}))

\* a left merge: the segments of the anomaly day only
MergedOnAnomalySegments(anomaly_df, baseline_df) ==
    Once(SortSegments({FillSegment(r.segment) : r \in anomaly_df}),
         LAMBDA keys :
        Materialise([i \in DOMAIN keys |->
                        LET a == {r \in anomaly_df : FillSegment(r.segment) = keys[i]}
                            b == {r \in baseline_df : FillSegment(r.segment) = keys[i]}
                        IN  [segment |-> keys[i],
                             numerator_anomaly |-> SumOver(a, "numerator"),
                             denominator_anomaly |-> SumOver(a, "denominator"),
                             numerator_sum |-> SumOver(b, "numerator"),
                             denominator_sum |-> SumOver(b, "denominator"),
                             days |-> Cardinality(b)]], 1))

\* lines 51-58: one row per segment with the anomaly-day aggregates and the sums and
\* the number of the baseline rows of the segment (their mean is sum / days); a side
\* without the segment is filled with 0.0
Merged(anomaly_df, baseline_df) ==
    Once(SortSegments({FillSegment(r.segment) : r \in anomaly_df \cup baseline_df}),
         LAMBDA keys :
        Materialise([i \in DOMAIN keys |->
                        LET a == {r \in anomaly_df : FillSegment(r.segment) = keys[i]}
                            b == {r \in baseline_df : FillSegment(r.segment) = keys[i]}
                        IN  [segment |-> keys[i],
                             numerator_anomaly |-> SumOver(a, "numerator"),
                             denominator_anomaly |-> SumOver(a, "denominator"),
                             numerator_sum |-> SumOver(b, "numerator"),
                             denominator_sum |-> SumOver(b, "denominator"),
                             days |-> Cardinality(b)]], 1))

BaselinePooledSum(sum, days) == FracOfInt(sum)

\* groupby(...).mean() of a baseline column, 0.0 for a segment without baseline rows
BaselineMean(sum, days) == IF days = 0 THEN FracOfInt(0) ELSE Frac(sum, days)

RECURSIVE FracSum(_)
FracSum(xs) ==
    Once(xs, LAMBDA column :
        IF column = <<>> THEN FracOfInt(0)
        ELSE Once(FracSum(Tail(column)), LAMBDA sum : FracAdd(column[1], sum)))

\* line 61 as float64 arithmetic: each mean is the double nearest to sum / days and
\* the column is summed in row order
TotalBaselineNum(merged) ==
    FloatSum(Materialise([i \in DOMAIN merged |->
                             FloatDiv(merged[i].numerator_sum, Max(merged[i].days, 1))], 1))

\* line 60
TotalAnomalyNum(merged) == SumSeq([i \in DOMAIN merged |-> merged[i].numerator_anomaly])

\* lines 62 and 79: total_num_delta is <<its sign as a float64, its value on the reals>>
TotalNumDelta(merged) ==
    Once(FloatOfInt(TotalAnomalyNum(merged)), LAMBDA float_anomaly :
    Once(TotalBaselineNum(merged), LAMBDA float_baseline :
        <<IF FloatLess(float_baseline, float_anomaly) THEN 1
          ELSE IF FloatLess(float_anomaly, float_baseline) THEN -1 ELSE 0,
          FracSub(FracOfInt(TotalAnomalyNum(merged)),
                  FracSum(Materialise([i \in DOMAIN merged |->
                              BaselineMean(merged[i].numerator_sum, merged[i].days)], 1)))>>))

\* a quotient beyond every value the counts of the model can give is kept as
\* ShareCap (in units of 10^-6): numerator_delta over a float64 rounding residue
ShareCap == 10 ^ 9

\* line 79 and round(contribution_share, 6) of line 87, in units of 10^-6
ContributionShare(numerator_delta, total_num_delta) ==
    IF total_num_delta[1] # 0
    THEN (IF total_num_delta[2][1] # 0
          THEN RoundFrac(FracDiv(numerator_delta, total_num_delta[2]), 6)
          ELSE Sign(numerator_delta[1]) * total_num_delta[1] * ShareCap)
    ELSE 0

\* line 96: abs(numerator_delta) * max(0.01, abs(delta_abs)), on the reals.  Two
\* rows whose scores are equal on the reals can differ in the last bit of the
\* float64 product, and sort_values then orders them by that bit; here they keep
\* the order of the merge.
DriverScore(numerator_delta, delta_abs) ==
    FracMul(FracAbs(numerator_delta), FracMax(Frac(1, 100), FracAbs(delta_abs)))

DeltaPctOfZeroBaseline(delta_abs, baseline_rate) ==
    IF baseline_rate[1] > 0
    THEN Some(FracMul(FracDiv(delta_abs, baseline_rate), FracOfInt(100)))
    ELSE Some(FracOfInt(0))

\* line 76
DeltaPct(delta_abs, baseline_rate) ==
    IF baseline_rate[1] > 0
    THEN Some(FracMul(FracDiv(delta_abs, baseline_rate), FracOfInt(100)))
    ELSE Null

\* lines 68-98: the record of one merged row
DriverRow(dimension, row, total_num_delta) ==
    LET a_num == FracOfInt(row.numerator_anomaly)
        a_den == FracOfInt(row.denominator_anomaly)
        b_num == BaselineMean(row.numerator_sum, row.days)
        b_den == BaselineMean(row.denominator_sum, row.days)
    IN  Once(SafeRate(a_num, a_den), LAMBDA anomaly_rate :
        Once(SafeRate(b_num, b_den), LAMBDA baseline_rate :
        Once(FracSub(anomaly_rate, baseline_rate), LAMBDA delta_abs :
        Once(DeltaPct(delta_abs, baseline_rate), LAMBDA delta_pct :
        Once(FracSub(a_num, b_num), LAMBDA numerator_delta :
        [dimension |-> dimension,
         segment |-> row.segment,
         delta_abs |-> RoundFrac(delta_abs, 6),
         delta_pct |-> IF delta_pct # Null THEN Some(RoundFrac(delta_pct[1], 4)) ELSE Null,
         contribution_share |-> ContributionShare(numerator_delta, total_num_delta),
         supporting_stats |->
             [anomaly_numerator |-> RoundFrac(a_num, 4),
              anomaly_denominator |-> RoundFrac(a_den, 4),
              baseline_numerator |-> RoundFrac(b_num, 4),
              baseline_denominator |-> RoundFrac(b_den, 4),
              anomaly_rate |-> RoundFrac(anomaly_rate, 6),
              baseline_rate |-> RoundFrac(baseline_rate, 6)],
         driver_score |-> DriverScore(numerator_delta, delta_abs)])))))

\* a * b for a, b >= 0 as <<high, low>> in base 10^6
BigMul(a, b) ==
    LET a1 == a \div 1000
        a0 == a % 1000
        b1 == b \div 1000
        b0 == b % 1000
        mid == a1 * b0 + a0 * b1
        low == (mid % 1000) * 1000 + a0 * b0
    IN  <<a1 * b1 + mid \div 1000 + low \div 1000000, low % 1000000>>

\* line 220
RankScore(r) == BigMul(Abs(r.contribution_share), Abs(r.delta_abs))

RankBelow(x, y) ==
    \/ RankScore(x)[1] < RankScore(y)[1]
    \/ /\ RankScore(x)[1] = RankScore(y)[1]
       /\ RankScore(x)[2] < RankScore(y)[2]

\* lines 221-222: by rank_score, ascending = False
RankAbove(x, y) ==
    \/ RankScore(x)[1] > RankScore(y)[1]
    \/ /\ RankScore(x)[1] = RankScore(y)[1]
       /\ RankScore(x)[2] > RankScore(y)[2]

SortsBeforeByFirstColumn(by, x, y) ==
    IF by = "driver_score" THEN FracLess(y.driver_score, x.driver_score)
    ELSE IF by = "rank_score" THEN RankAbove(x, y)
    ELSE x.contribution_share > y.contribution_share

\* x sorts strictly before y in sort_values(by = ..., ascending = False)
SortsBefore(by, x, y) ==
    IF by = "driver_score"
    THEN \/ FracLess(y.driver_score, x.driver_score)
         \/ /\ y.driver_score = x.driver_score
            /\ x.contribution_share > y.contribution_share
    ELSE IF by = "rank_score"
    THEN \/ RankAbove(x, y)
         \/ /\ RankScore(x) = RankScore(y)
            /\ \/ x.contribution_share > y.contribution_share
               \/ /\ x.contribution_share = y.contribution_share
                  /\ x.delta_abs > y.delta_abs
    ELSE \/ x.contribution_share > y.contribution_share
         \/ /\ x.contribution_share = y.contribution_share
            /\ x.delta_abs > y.delta_abs

\* DataFrame.sort_values on several columns is stable: rows that compare equal keep
\* their order
RECURSIVE SortValues(_, _)
SortValues(rows, by) ==
    Once(rows, LAMBDA frame :
        IF frame = <<>> THEN <<>>
        ELSE Once(SortValues(SubSeq(frame, 1, Len(frame) - 1), by), LAMBDA sorted :
             Once(frame[Len(frame)], LAMBDA x :
             Once({i \in DOMAIN sorted : SortsBefore(by, x, sorted[i])}, LAMBDA later :
                 LET at == IF later = {} THEN Len(sorted) + 1
                           ELSE CHOOSE i \in later : \A j \in later : i <= j
                 IN  SubSeq(sorted, 1, at - 1) \o <<x>> \o SubSeq(sorted, at, Len(sorted))))))

\* DataFrame.head(n)
HeadRows(rows, n) ==
    Once(rows, LAMBDA frame :
        IF n >= 0 THEN SubSeq(frame, 1, Min(n, Len(frame)))
        ELSE SubSeq(frame, 1, Max(Len(frame) + n, 0)))

DropDriverScore(r) ==
    [dimension |-> r.dimension, segment |-> r.segment, delta_abs |-> r.delta_abs,
     delta_pct |-> r.delta_pct, contribution_share |-> r.contribution_share,
     supporting_stats |-> r.supporting_stats]

\* the top_n of _build_driver_rows when the caller passes none (line 35)
DefaultEvidenceRows == 5

\* lines 31-108
BuildDriverRows(dimension, anomaly_df, baseline_df, top_n) ==
    IF anomaly_df = {} /\ baseline_df = {}
    THEN [rows |-> <<>>, evidence_rows |-> <<>>]
    ELSE Once(Merged(anomaly_df, baseline_df), LAMBDA merged :
         Once(TotalNumDelta(merged), LAMBDA total_num_delta :
         Once(Materialise([i \in 1 .. Len(merged) |->
                              DriverRow(dimension, merged[i], total_num_delta)], 1),
              LAMBDA rows :
         Once(HeadRows(SortValues(rows, "driver_score"), top_n), LAMBDA top :
             [rows |-> rows,
              evidence_rows |-> Materialise([i \in DOMAIN top |-> DropDriverScore(top[i])],
                                            1)]))))

\* the result of a call that returned, and of one that raised
Returns(drivers, evidence) == [raised |-> "none", drivers |-> drivers, evidence |-> evidence]

Raises(error) == [raised |-> error, drivers |-> <<>>, evidence |-> <<>>]

\* lines 174-210, one pass of the loop: the driver rows and the evidence entry of cfg
DimensionResult(joined, cfg, target_date, baseline_start, baseline_end) ==
    Once(AnomalyQuery(joined, cfg, target_date), LAMBDA anomaly_df :
    Once(BaselineQuery(joined, cfg, baseline_start, baseline_end), LAMBDA baseline_df :
    Once(BuildDriverRows(cfg.dimension, anomaly_df, baseline_df, DefaultEvidenceRows),
         LAMBDA built :
        [rows |-> built.rows,
         evidence |-> [dimension |-> cfg.dimension,
                       anomaly_sql |-> <<cfg.from_clause, cfg.column, "dd.date = ?">>,
                       anomaly_params |-> <<target_date>>,
                       baseline_sql |-> <<cfg.from_clause, cfg.column,
                                          "dd.date BETWEEN ? AND ?">>,
                       baseline_params |-> <<baseline_start, baseline_end>>,
                       top_rows |-> built.evidence_rows]])))

RECURSIVE AllRows(_, _)
AllRows(results, k) ==
    IF k > Len(results) THEN <<>> ELSE results[k].rows \o AllRows(results, k + 1)

PositiveDeltaOnly(rows) == SelectSeq(rows, LAMBDA r : r.delta_abs > 0)

\* line 218
Positive(rows) == SelectSeq(rows, LAMBDA r : r.delta_abs > 0 /\ r.contribution_share > 0)

BaselineWindowThroughTarget(target_date, baseline_days) ==
    <<target_date - baseline_days, target_date>>

\* lines 168-169: <<baseline_start, baseline_end>>
BaselineWindow(target_date, baseline_days) ==
    <<target_date - baseline_days, target_date - 1>>

\* lines 160-224
AnalyzeRateKpi(db, kpi_name, target_date, baseline_days, top_n) ==
    IF target_date = NotADate THEN Raises("ValueError")
    ELSE LET baseline_start == BaselineWindow(target_date, baseline_days)[1]
             baseline_end == BaselineWindow(target_date, baseline_days)[2]
             configs == DimensionConfigsForKpi(kpi_name)
         IN  Once(FromClause(db, kpi_name), LAMBDA joined :
             Once(Materialise([k \in DOMAIN configs |->
                                  DimensionResult(joined, configs[k], target_date,
                                                  baseline_start, baseline_end)], 1),
                  LAMBDA results :
             Once(Materialise([k \in DOMAIN results |-> results[k].evidence], 1),
                  LAMBDA evidence :
             Once(AllRows(results, 1), LAMBDA all_rows :
             Once(Positive(all_rows), LAMBDA positive :
                 LET ranked == IF positive # <<>> THEN positive ELSE all_rows
                 IN  IF all_rows = <<>> THEN Returns(<<>>, evidence)
                     ELSE Returns(HeadRows(SortValues(ranked, "rank_score"), top_n),
                                  evidence))))))

\* the penalty weights of lines 282-283
MissingWeight == 70

DuplicateWeight == 30

\* lines 237-248, 264: per site the Delivered jobs without a delivery date, the
\* Delivered jobs and AVG(duplicate_flag) of one day
QualityOfDay(db, site_name, date) ==
    LET jobs == {j \in db.fact_jobs : j.site_name = site_name /\ j.date = date}
    IN  [missing_delivered |->
             Cardinality({j \in jobs : j.status = "Delivered" /\ j.delivered_date_key = Null}),
         delivered_jobs |-> Cardinality({j \in jobs : j.status = "Delivered"}),
         duplicate_rate |-> Frac(SumOver(jobs, "duplicate_flag"), Cardinality(jobs))]

RECURSIVE QualitySum(_, _, _, _)
QualitySum(db, site_name, dates, column) ==
    IF dates = {} THEN FracOfInt(0)
    ELSE Once(CHOOSE x \in dates : TRUE, LAMBDA d :
         Once(QualityOfDay(db, site_name, d)[column], LAMBDA v :
         Once(QualitySum(db, site_name, dates \ {d}, column), LAMBDA sum :
             FracAdd(IF column = "duplicate_rate" THEN v ELSE FracOfInt(v), sum))))

\* lines 271-305: the row of one site, contribution_share still 0.0
QualityRow(db, site_name, target_date, baseline_start, baseline_end) ==
    Once({j \in db.fact_jobs : j.site_name = site_name /\ j.date = target_date},
         LAMBDA on_day :
    Once({j.date : j \in {x \in db.fact_jobs :
                            /\ x.site_name = site_name
                            /\ x.date \in baseline_start .. baseline_end}}, LAMBDA days :
    Once(IF on_day = {}
         THEN [missing_delivered |-> 0, delivered_jobs |-> 0, duplicate_rate |-> FracOfInt(0)]
         ELSE QualityOfDay(db, site_name, target_date), LAMBDA a :
    LET Mean(column) == IF days = {} THEN FracOfInt(0)
                        ELSE FracDiv(QualitySum(db, site_name, days, column),
                                     FracOfInt(Cardinality(days)))
        a_missing == FracOfInt(a.missing_delivered)
        a_delivered == FracOfInt(a.delivered_jobs)
        a_dup == a.duplicate_rate
    IN
    Once(Mean("missing_delivered"), LAMBDA b_missing :
    Once(Mean("delivered_jobs"), LAMBDA b_delivered :
    Once(Mean("duplicate_rate"), LAMBDA b_dup :
    Once(FracAdd(FracMul(SafeRate(a_missing, a_delivered), FracOfInt(MissingWeight)),
                 FracMul(a_dup, FracOfInt(DuplicateWeight))), LAMBDA anomaly_penalty :
    Once(FracAdd(FracMul(SafeRate(b_missing, b_delivered), FracOfInt(MissingWeight)),
                 FracMul(b_dup, FracOfInt(DuplicateWeight))), LAMBDA baseline_penalty :
    Once(FracSub(anomaly_penalty, baseline_penalty), LAMBDA delta_abs :
        [dimension |-> "site",
         segment |-> site_name,
         delta_abs |-> RoundFrac(delta_abs, 6),
         delta_pct |-> IF baseline_penalty[1] > 0
                       THEN Some(RoundFrac(FracMul(FracDiv(delta_abs, baseline_penalty),
                                                   FracOfInt(100)), 4))
                       ELSE Null,
         contribution_share |-> 0,
         supporting_stats |->
             [anomaly_missing_delivered |-> RoundFrac(a_missing, 2),
              anomaly_delivered_jobs |-> RoundFrac(a_delivered, 2),
              baseline_missing_delivered |-> RoundFrac(b_missing, 2),
              baseline_delivered_jobs |-> RoundFrac(b_delivered, 2),
              anomaly_duplicate_rate |-> RoundFrac(a_dup, 6),
              baseline_duplicate_rate |-> RoundFrac(b_dup, 6),
              anomaly_penalty |-> RoundFrac(anomaly_penalty, 6),
              baseline_penalty |-> RoundFrac(baseline_penalty, 6)]])))))))))

\* the path with delta_abs / total_delta for the share, negative deltas included
AnalyzeDataQualityWithSignedShare(db, target_date, baseline_days, top_n) ==
    IF target_date = NotADate THEN Raises("ValueError")
    ELSE LET baseline_start == target_date - baseline_days
             baseline_end == target_date - 1
         IN
         Once(db, LAMBDA mart :
         Once(SortSegments({j.site_name : j \in {x \in mart.fact_jobs :
                               \/ x.date = target_date
                               \/ x.date \in baseline_start .. baseline_end}}), LAMBDA sites :
         Once(Materialise([i \in DOMAIN sites |->
                              QualityRow(mart, sites[i], target_date,
                                         baseline_start, baseline_end)], 1), LAMBDA rows :
         Once(SumSeq(Materialise([i \in DOMAIN rows |-> Max(0, rows[i].delta_abs)], 1)),
              LAMBDA sum :
         Once(IF sum = 0 THEN 10 ^ 6 ELSE sum, LAMBDA total_delta :
         Once(Materialise([i \in DOMAIN rows |->
                              [rows[i] EXCEPT !.contribution_share =
                                  RoundFrac(Frac(rows[i].delta_abs, total_delta), 6)]],
                          1), LAMBDA shared :
         Once(HeadRows(SortValues(shared, "contribution_share"), top_n), LAMBDA drivers :
             Returns(drivers,
                     <<[dimension |-> "site",
                        anomaly_sql |-> <<"fact_jobs", "site_name", "dd.date = ?">>,
                        anomaly_params |-> <<target_date>>,
                        baseline_sql |-> <<"fact_jobs", "site_name",
                                           "dd.date BETWEEN ? AND ?">>,
                        baseline_params |-> <<baseline_start, baseline_end>>,
                        top_rows |-> drivers]>>))))))))

\* lines 227-327
AnalyzeDataQuality(db, target_date, baseline_days, top_n) ==
    IF target_date = NotADate THEN Raises("ValueError")
    ELSE LET baseline_start == target_date - baseline_days
             baseline_end == target_date - 1
         IN
         Once(db, LAMBDA mart :
         Once(SortSegments({j.site_name : j \in {x \in mart.fact_jobs :
                               \/ x.date = target_date
                               \/ x.date \in baseline_start .. baseline_end}}), LAMBDA sites :
         Once(Materialise([i \in DOMAIN sites |->
                              QualityRow(mart, sites[i], target_date,
                                         baseline_start, baseline_end)], 1), LAMBDA rows :
         Once(SumSeq(Materialise([i \in DOMAIN rows |-> Max(0, rows[i].delta_abs)], 1)),
              LAMBDA sum :
         Once(IF sum = 0 THEN 10 ^ 6 ELSE sum, LAMBDA total_delta :
         Once(Materialise([i \in DOMAIN rows |->
                              [rows[i] EXCEPT !.contribution_share =
                                  RoundFrac(Frac(Max(0, rows[i].delta_abs), total_delta), 6)]],
                          1), LAMBDA shared :
         Once(HeadRows(SortValues(shared, "contribution_share"), top_n), LAMBDA drivers :
             Returns(drivers,
                     <<[dimension |-> "site",
                        anomaly_sql |-> <<"fact_jobs", "site_name", "dd.date = ?">>,
                        anomaly_params |-> <<target_date>>,
                        baseline_sql |-> <<"fact_jobs", "site_name",
                                           "dd.date BETWEEN ? AND ?">>,
                        baseline_params |-> <<baseline_start, baseline_end>>,
                        top_rows |-> drivers]>>))))))))

\* the defaults of compute_top_drivers, which explain_kpi passes on as they are
DefaultBaselineDays == 14

DefaultTopN == 3

\* compute_top_drivers without its last line: every KPI but the data-quality one goes
\* down the rate path, which finds no dimension for an unknown one
ComputeTopDriversByConfigs(db, kpi_name, target_date, baseline_days, top_n) ==
    IF kpi_name = DataQualityKpi
    THEN AnalyzeDataQuality(db, target_date, baseline_days, top_n)
    ELSE AnalyzeRateKpi(db, kpi_name, target_date, baseline_days, top_n)

\* lines 330-343
ComputeTopDrivers(db, kpi_name, target_date, baseline_days, top_n) ==
    IF kpi_name \in RateKpis
    THEN AnalyzeRateKpi(db, kpi_name, target_date, baseline_days, top_n)
    ELSE IF kpi_name = DataQualityKpi
    THEN AnalyzeDataQuality(db, target_date, baseline_days, top_n)
    ELSE Returns(<<>>, <<>>)

----------------------------------------------------------------------------
(* State *)

VARIABLES
    fact_kpi_daily,     \* the KPI history: a set of rows [kpi_name, date, value]
    scenario_registry,  \* the registry table, in row order
    anomalies,          \* the committed anomalies table, in row order
    explain_audit_log,  \* the committed audit log, in row order
    txn,                \* per connection: its open transaction and the anomalies table inside it
    pc,                 \* per connection: the position inside a running recompute_anomalies
    call,               \* per connection: the locals of the running call
    clock,              \* datetime.now(timezone.utc), in ticks
    last,               \* the most recent handler call and what it returned
    before,             \* the committed anomalies table when that call started
    failed,             \* the most recent recomputation that raised, if none has succeeded since
    run,                \* the most recent scorer run with its parameters
    prevRun,            \* the scorer run before it
    observed,           \* what the most recent GET /anomalies read
    lastCommitted,      \* the flagged set of the call that committed last
    fact_jobs,          \* the jobs, each with the names its dimension ids join to
    fact_comms,         \* the communications, likewise
    fact_incidents,     \* the incidents
    attribution,        \* the most recent compute_top_drivers call and its result
    prevAttribution     \* the compute_top_drivers call before it

vars == <<fact_kpi_daily, scenario_registry, anomalies, explain_audit_log, txn, pc, call,
          clock, last, before, failed, run, prevRun, observed, lastCommitted, fact_jobs,
          fact_comms, fact_incidents, attribution, prevAttribution>>

\* the mart as a connection reads it: only the ETL writes these tables
Db == [fact_jobs |-> fact_jobs, fact_comms |-> fact_comms, fact_incidents |-> fact_incidents]

\* bounds of the model
MaxLen == 2

ScoreLen == 4

MaxClock == 2

MaxWindow == 3

Conns == {"c1", "c2"}

NoTxn == [open |-> FALSE, rows |-> <<>>]

OpenTxn(rows) == [open |-> TRUE, rows |-> rows]

NoCall == [op |-> "none"]

NoFail == [conn |-> "none"]

NoRun == [kpi_names |-> {"none"}]

NoRead == [during |-> "none"]

\* a mart in which every KPI of `names` has one observation on each of the days
\* 1..n (compute_kpis inserts every KPI for every date), f[k][d] its value
MartOf(names, n, f) ==
    {[kpi_name |-> k, date |-> d, value |-> f[k][d]] : k \in names, d \in 1 .. n}

Marts(names, maxlen, vals) ==
    UNION {{MartOf(names, n, f) : f \in [names -> [1 .. n -> vals]]} : n \in 0 .. maxlen}

\* value units are 10^-5: 0.0, 0.00002, 0.00007
StoreValues == {0, 7}

ScoreValues == {0, 2, 7}

\* one registered scenario (generate_sample_data.build_scenario_registry)
Registry ==
    <<[scenario_tag |-> "Scenario A", scenario_date |-> 2, kpi_name |-> "sla_breach_rate_pct"]>>

\* the parameters the callers of the store pass: <<threshold, window_days, min_history>>
StoreParams == {<<DefaultThreshold, 1, 1>>, <<DefaultThreshold, 2, 2>>, <<0, 2, 1>>}

\* thresholds in units of 10^-4: 0.0, the default 3.0, 4.0469
Thresholds == {0, DefaultThreshold, 40469}

Windows == 1 .. MaxWindow

MinHistories == 0 .. MaxWindow

Filters == {{}, {KpiOrder[1]}, {KpiOrder[2]}, {UnknownKpi}}

\* the longest baseline window of the attribution calls
MaxBaselineDays == 3

\* the day the jobs of the generated marts lead up to
TargetDay == MaxBaselineDays + 1

\* a day with no job within MaxBaselineDays days of it
QuietDay == TargetDay + MaxBaselineDays + 1

Carriers == <<"EastLine", "NorthHaul", "SouthFreight">>

\* the life of a carrier over the days 1 .. TargetDay: has it a job on day d
HasJob(life, d) ==
    IF life = "absent" THEN FALSE
    ELSE IF life = "newcomer" THEN d = TargetDay
    ELSE IF life = "gone" THEN d < TargetDay
    ELSE TRUE

\* ... and does that job go wrong (breached, with an incident, delivered without a date)
GoesWrong(life, d) ==
    IF life \in {"always", "gone", "newcomer"} THEN TRUE
    ELSE IF life = "lapse" THEN d # TargetDay - 1
    ELSE IF life = "once" THEN d = TargetDay - 1
    ELSE IF life = "surge" THEN d = TargetDay
    ELSE FALSE

\* where a carrier's job of day d is handled
SiteOf(layout, k, d) ==
    IF layout = "by_carrier" THEN (IF k = 2 THEN "Leeds" ELSE "York")
    ELSE IF (k + d) % 2 = 0 THEN "Leeds" ELSE "York"

JobId(k, d) == Len(Carriers) * d + k

\* generate_sample_data.py / load_mart.py: the jobs of a mart, one per carrier and day
JobsOf(lives, layout) ==
    {[job_id |-> JobId(p[1], p[2]), date |-> p[2], site_name |-> SiteOf(layout, p[1], p[2]),
      tier |-> "Gold", carrier_name |-> Carriers[p[1]], product_family |-> "Ambient",
      status |-> "Delivered",
      delivered_date_key |-> IF GoesWrong(lives[p[1]], p[2]) THEN Null ELSE Some(p[2]),
      duplicate_flag |-> 0] :
        p \in {q \in (DOMAIN Carriers) \X (1 .. TargetDay) : HasJob(lives[q[1]], q[2])}}

\* one communication per job, SLA sensitive, breached when the job goes wrong
CommsOfJobs(jobs) ==
    {[comm_id |-> j.job_id, job_id |-> j.job_id, date |-> j.date, site_name |-> j.site_name,
      tier |-> j.tier, category_name |-> "Delivery", carrier_name |-> j.carrier_name,
      product_family |-> j.product_family, sla_sensitive_bool |-> 1,
      breached_bool |-> IF j.delivered_date_key = Null THEN 1 ELSE 0] : j \in jobs}

\* one incident per job that goes wrong
IncidentsOfJobs(jobs) ==
    {[incident_id |-> j.job_id, job_id |-> j.job_id, incident_type |-> "Damage"] :
        j \in {x \in jobs : x.delivered_date_key = Null}}

MartOfJobs(jobs) ==
    [fact_jobs |-> jobs, fact_comms |-> CommsOfJobs(jobs),
     fact_incidents |-> IncidentsOfJobs(jobs)]

Lives ==
    {<<e, n, s>> : e \in {"always", "never"},
                   n \in {"lapse", "surge", "newcomer", "never"},
                   s \in {"once", "never", "gone", "absent"}}

Layouts == {"by_carrier", "by_day"}

AttributionMarts == {MartOfJobs(JobsOf(l, y)) : l \in Lives, y \in Layouts}

\* the mart of the specifications that do not vary it
SampleMart == MartOfJobs(JobsOf(<<"always", "surge", "never">>, "by_day"))

NoAttribution == [kpi_name |-> "none"]

\* the state a freshly loaded mart is in (load_mart.main): no anomalies, no audit rows
InitMart(facts, registry, mart) ==
    /\ fact_jobs = mart.fact_jobs
    /\ fact_comms = mart.fact_comms
    /\ fact_incidents = mart.fact_incidents
    /\ attribution = NoAttribution
    /\ prevAttribution = NoAttribution
    /\ fact_kpi_daily = facts
    /\ scenario_registry = registry
    /\ anomalies = <<>>
    /\ explain_audit_log = <<>>
    /\ txn = [c \in Conns |-> NoTxn]
    /\ pc = [c \in Conns |-> "idle"]
    /\ call = [c \in Conns |-> NoCall]
    /\ clock = 0
    /\ last = NoCall
    /\ before = <<>>
    /\ failed = NoFail
    /\ run = NoRun
    /\ prevRun = NoRun
    /\ observed = NoRead
    /\ lastCommitted = <<>>

InitWith(facts, registry) == InitMart(facts, registry, SampleMart)

\* the marts of the store: every KPI flat at 0, or flat with a step on its last day
StoreMarts ==
    UNION {{MartOf(KpiNames, n, f) :
                f \in [KpiNames -> {[d \in 1 .. n |-> 0],
                                    [d \in 1 .. n |-> IF d = n THEN 7 ELSE 0]}]} :
           n \in 0 .. MaxLen}

Init ==
    \E facts \in StoreMarts : InitWith(facts, Registry)

----------------------------------------------------------------------------
(* Connections (api/db.py, and sqlite3's implicit transactions) *)

\* what a statement on connection c reads: its own uncommitted changes, else the
\* committed table
View(c) == IF txn[c].open THEN txn[c].rows ELSE anomalies

\* SQLite admits one writer: a connection can start writing only while no other
\* connection holds an open write transaction
CanWrite(c) == \A d \in Conns \ {c} : ~txn[d].open

\* get_connection's finally: conn.close() discards whatever is uncommitted
CloseConnection(c) ==
    /\ pc[c] = "idle"
    /\ txn[c].open
    /\ txn' = [txn EXCEPT ![c] = NoTxn]
    /\ UNCHANGED <<fact_jobs, fact_comms, fact_incidents, attribution, prevAttribution>>
    /\ UNCHANGED <<fact_kpi_daily, scenario_registry, anomalies, explain_audit_log, pc, call,
                   clock, last, before, failed, run, prevRun, observed, lastCommitted>>

----------------------------------------------------------------------------
(* recompute_anomalies as one call (anomaly.py lines 25-111) *)

\* the call with the DELETE of line 101 left out: the flagged rows are appended
RecomputeCallWithoutDelete(c, threshold, window_days, min_history, kpi_names) ==
    LET frame == ReadFrame(fact_kpi_daily, kpi_names)
        rows == ComputeRows(fact_kpi_daily, scenario_registry, threshold, window_days,
                            min_history, kpi_names, clock)
    IN  /\ pc[c] = "idle"
        /\ clock < MaxClock
        /\ frame # {} => CanWrite(c)
        /\ clock' = clock + 1
        /\ before' = anomalies
        /\ IF frame = {}
           THEN /\ last' = [op |-> "recompute", kpi_names |-> kpi_names, out |-> <<>>,
                            status |-> "ok", frame_empty |-> TRUE]
                /\ UNCHANGED <<anomalies, txn, failed>>
           ELSE /\ last' = [op |-> "recompute", kpi_names |-> kpi_names, out |-> rows,
                            status |-> "ok", frame_empty |-> FALSE]
                /\ anomalies' = View(c) \o rows
                /\ txn' = [txn EXCEPT ![c] = NoTxn]
                /\ failed' = NoFail
        /\ UNCHANGED <<fact_jobs, fact_comms, fact_incidents, attribution, prevAttribution>>
        /\ UNCHANGED <<fact_kpi_daily, scenario_registry, explain_audit_log, pc, call,
                       observed, lastCommitted>>

\* The call returns normally.  An empty frame returns [] at line 42, before the
\* DELETE; otherwise DELETE, INSERT and COMMIT replace the table by the flagged rows.
RecomputeCall(c, threshold, window_days, min_history, kpi_names) ==
    LET frame == ReadFrame(fact_kpi_daily, kpi_names)
        rows == ComputeRows(fact_kpi_daily, scenario_registry, threshold, window_days,
                            min_history, kpi_names, clock)
    IN  /\ pc[c] = "idle"
        /\ clock < MaxClock
        /\ frame # {} => CanWrite(c)
        /\ clock' = clock + 1
        /\ before' = anomalies
        /\ IF frame = {}
           THEN /\ last' = [op |-> "recompute", kpi_names |-> kpi_names, out |-> <<>>,
                            status |-> "ok", frame_empty |-> TRUE]
                /\ UNCHANGED <<anomalies, txn, failed>>
           ELSE /\ last' = [op |-> "recompute", kpi_names |-> kpi_names, out |-> rows,
                            status |-> "ok", frame_empty |-> FALSE]
                /\ anomalies' = rows
                /\ txn' = [txn EXCEPT ![c] = NoTxn]
                /\ failed' = NoFail
        /\ UNCHANGED <<fact_jobs, fact_comms, fact_incidents, attribution, prevAttribution>>
        /\ UNCHANGED <<fact_kpi_daily, scenario_registry, explain_audit_log, pc, call,
                       observed, lastCommitted>>

\* the same failure on a connection in autocommit mode (isolation_level=None):
\* the DELETE and every inserted row are durable at once
RecomputeRaisesAutocommit(c, threshold, window_days, min_history, kpi_names) ==
    LET frame == ReadFrame(fact_kpi_daily, kpi_names)
        rows == ComputeRows(fact_kpi_daily, scenario_registry, threshold, window_days,
                            min_history, kpi_names, clock)
    IN  /\ pc[c] = "idle"
        /\ clock < MaxClock
        /\ CanWrite(c)
        /\ frame # {}
        /\ clock' = clock + 1
        /\ before' = anomalies
        /\ last' = [op |-> "recompute", kpi_names |-> kpi_names, out |-> <<>>,
                    status |-> "storage_error", frame_empty |-> FALSE]
        /\ \E done \in 0 .. Len(rows) : anomalies' = SubSeq(rows, 1, done)
        /\ failed' = [conn |-> c, rows |-> anomalies, committed |-> FALSE]
        /\ UNCHANGED <<fact_jobs, fact_comms, fact_incidents, attribution, prevAttribution>>
        /\ UNCHANGED <<fact_kpi_daily, scenario_registry, txn, explain_audit_log, pc,
                       call, observed, lastCommitted>>

\* The call raises a storage error after the DELETE ran: executemany fails at row
\* done + 1 (done < len(anomaly_rows)), or the COMMIT fails (done = len).  Nothing is
\* rolled back and nothing is committed: the connection keeps the open transaction.
RecomputeRaises(c, threshold, window_days, min_history, kpi_names) ==
    LET frame == ReadFrame(fact_kpi_daily, kpi_names)
        rows == ComputeRows(fact_kpi_daily, scenario_registry, threshold, window_days,
                            min_history, kpi_names, clock)
    IN  /\ pc[c] = "idle"
        /\ clock < MaxClock
        /\ CanWrite(c)
        /\ frame # {}
        /\ clock' = clock + 1
        /\ before' = anomalies
        /\ last' = [op |-> "recompute", kpi_names |-> kpi_names, out |-> <<>>,
                    status |-> "storage_error", frame_empty |-> FALSE]
        /\ \E done \in 0 .. Len(rows) :
               txn' = [txn EXCEPT ![c] = OpenTxn(SubSeq(rows, 1, done))]
        /\ failed' = [conn |-> c, rows |-> anomalies, committed |-> FALSE]
        /\ UNCHANGED <<fact_jobs, fact_comms, fact_incidents, attribution, prevAttribution>>
        /\ UNCHANGED <<fact_kpi_daily, scenario_registry, anomalies, explain_audit_log, pc,
                       call, observed, lastCommitted>>

----------------------------------------------------------------------------
(* explain_kpi, as far as it touches the anomalies table and the audit log
   (explain.py lines 15-83 and 153-207) *)

HasFact(kpi_name, date) ==
    \E r \in fact_kpi_daily : r.kpi_name = kpi_name /\ r.date = date

HasAnomalyOfKpi(rows, kpi_name, date) ==
    \E i \in DOMAIN rows : rows[i].kpi_name = kpi_name

HasAnomaly(rows, kpi_name, date) ==
    \E i \in DOMAIN rows : rows[i].kpi_name = kpi_name /\ rows[i].date = date

\* lines 45-54 and 59-68: SELECT ... WHERE kpi_name = ? AND date = ? ORDER BY score
\* DESC LIMIT 1, Null when no row matches
AnomalyRow(rows, kpi_name, date) ==
    LET found == {i \in DOMAIN rows : rows[i].kpi_name = kpi_name /\ rows[i].date = date}
    IN  IF found = {} THEN Null
        ELSE Some(rows[CHOOSE i \in found :
                           \A j \in found : \/ rows[i].score > rows[j].score
                                            \/ rows[i].score = rows[j].score /\ i <= j])

\* the status of the HTTPException the route raises for a ValueError
\* (api/routes/explain.py lines 29-30)
HttpNotFound == 404

\* the caller's request id (the middleware's request.state.request_id), or none
RequestIds == {Null, <<"req", 1>>}

\* line 159: request_id or str(uuid4()); a uuid is fresh with every tick of the clock
RequestIdOr(request_id, now) == IF request_id = Null THEN <<"uuid", now>> ELSE request_id

\* json.dumps(value, default=str): the text of the value
JsonDumps(value) == <<"json", value>>

\* the id the INSERT gives the new row of explain_audit_log (cursor.lastrowid): one
\* above the largest id of the table
NextRowId(log) ==
    IF log = <<>> THEN 1
    ELSE 1 + (CHOOSE m \in {log[i].id : i \in DOMAIN log} :
                  \A i \in DOMAIN log : log[i].id <= m)

AuditRowWithoutRequestId(log, ts, kpi_name, date, evidence, drivers, request_id) ==
    [id |-> NextRowId(log), timestamp |-> ts, kpi_name |-> kpi_name, date |-> date,
     sql_used |-> JsonDumps(evidence), slices_returned |-> JsonDumps(drivers),
     user_feedback |-> NULL, request_id |-> Null]

\* lines 193-203: the row of the INSERT INTO explain_audit_log
AuditRow(log, ts, kpi_name, date, evidence, drivers, request_id) ==
    [id |-> NextRowId(log), timestamp |-> ts, kpi_name |-> kpi_name, date |-> date,
     sql_used |-> JsonDumps(evidence), slices_returned |-> JsonDumps(drivers),
     user_feedback |-> NULL, request_id |-> request_id]

KpiIndex(kpi_name) == CHOOSE k \in DOMAIN KpiOrder : KpiOrder[k] = kpi_name

\* what line 162 returns over the sample mart, per KPI and day: the specifications of
\* the store never change the fact tables, so it is computed once
SampleDrivers ==
    Materialise([k \in DOMAIN KpiOrder |->
                    Materialise([d \in 1 .. QuietDay |->
                                    ComputeTopDrivers(SampleMart, KpiOrder[k], d,
                                                      DefaultBaselineDays, DefaultTopN)],
                                1)], 1)

\* line 162: compute_top_drivers(conn, kpi_name, target_date, baseline_days=14, top_n=3)
ExplainDrivers(db, kpi_name, target_date) ==
    IF db = SampleMart /\ kpi_name \in KpiNames /\ target_date \in 1 .. QuietDay
    THEN SampleDrivers[KpiIndex(kpi_name)][target_date]
    ELSE ComputeTopDrivers(db, kpi_name, target_date, DefaultBaselineDays, DefaultTopN)

\* the audit row is written before the observation is looked up
ExplainNotFoundAudited(c, kpi_name, date) ==
    /\ pc[c] = "idle"
    /\ ~HasFact(kpi_name, date)
    /\ last' = [op |-> "explain", kpi_names |-> {kpi_name}, out |-> <<>>,
                status |-> "not_found", frame_empty |-> FALSE, kpi_name |-> kpi_name,
                date |-> date, raised |-> "ValueError", http_status |-> HttpNotFound]
    /\ before' = anomalies
    /\ explain_audit_log' =
           Append(explain_audit_log,
                  AuditRow(explain_audit_log, clock, kpi_name, date, <<>>, <<>>, Null))
    /\ UNCHANGED <<fact_jobs, fact_comms, fact_incidents, attribution, prevAttribution>>
    /\ UNCHANGED <<fact_kpi_daily, scenario_registry, anomalies, txn, pc,
                   call, clock, failed, run, prevRun, observed, lastCommitted>>

\* line 25: no observation for (kpi_name, date) raises ValueError before anything is
\* written; the route turns it into a 404 (api/routes/explain.py lines 26-30)
ExplainNotFound(c, kpi_name, date) ==
    /\ pc[c] = "idle"
    /\ ~HasFact(kpi_name, date)
    /\ last' = [op |-> "explain", kpi_names |-> {kpi_name}, out |-> <<>>,
                status |-> "not_found", frame_empty |-> FALSE, kpi_name |-> kpi_name,
                date |-> date, raised |-> "ValueError", http_status |-> HttpNotFound]
    /\ before' = anomalies
    /\ UNCHANGED <<fact_jobs, fact_comms, fact_incidents, attribution, prevAttribution>>
    /\ UNCHANGED <<fact_kpi_daily, scenario_registry, anomalies, explain_audit_log, txn, pc,
                   call, clock, failed, run, prevRun, observed, lastCommitted>>

\* lines 45-69: with no anomaly row for (kpi_name, date) the scorer runs with its
\* defaults and kpi_names = [kpi_name] and the row is looked up again; line 162: the
\* drivers of the day; lines 196-206: one audit row, then COMMIT, which commits
\* everything the connection has pending, and the row's id as audit_id.
ExplainKpi(c, kpi_name, date, request_id) ==
    LET hit == HasAnomaly(View(c), kpi_name, date)
        rows == ComputeRows(fact_kpi_daily, scenario_registry, DefaultThreshold,
                            DefaultWindowDays, DefaultMinHistory, {kpi_name}, clock)
        table == IF hit THEN View(c) ELSE rows
        anomaly_row == AnomalyRow(table, kpi_name, date)
        driver_result == ExplainDrivers(Db, kpi_name, date)
        id == RequestIdOr(request_id, clock)
        row == AuditRow(explain_audit_log, clock, kpi_name, date, driver_result.evidence,
                        driver_result.drivers, id)
    IN  /\ pc[c] = "idle"
        /\ clock < MaxClock
        /\ CanWrite(c)
        /\ HasFact(kpi_name, date)
        /\ clock' = clock + 1
        /\ before' = anomalies
        /\ anomalies' = table
        /\ txn' = [txn EXCEPT ![c] = NoTxn]
        /\ explain_audit_log' = Append(explain_audit_log, row)
        /\ last' = [op |-> "explain", kpi_names |-> {kpi_name},
                    out |-> IF hit THEN <<>> ELSE rows,
                    status |-> IF hit THEN "ok" ELSE "ok_scored", frame_empty |-> FALSE,
                    kpi_name |-> kpi_name, date |-> date, raised |-> "none",
                    pending |-> txn[c].open,
                    request_id |-> id,
                    anomaly_score |-> IF anomaly_row = Null THEN Null
                                      ELSE Some(anomaly_row[1].score),
                    scenario_tag |-> IF anomaly_row = Null THEN NULL
                                     ELSE anomaly_row[1].scenario_tag,
                    drivers |-> driver_result.drivers,
                    evidence |-> driver_result.evidence,
                    audit_id |-> row.id]
        /\ failed' = IF ~hit THEN NoFail
                     ELSE IF failed # NoFail /\ failed.conn = c /\ txn[c].open
                     THEN [failed EXCEPT !.committed = TRUE]
                     ELSE failed
        /\ UNCHANGED <<fact_jobs, fact_comms, fact_incidents, attribution, prevAttribution>>
        /\ UNCHANGED <<fact_kpi_daily, scenario_registry, pc, call, run, prevRun, observed,
                       lastCommitted>>

----------------------------------------------------------------------------
(* The mart with one caller at a time *)

Dates == 1 .. MaxLen

RecomputeAnomalies(c, threshold, window_days, min_history, kpi_names) ==
    /\ RecomputeCall(c, threshold, window_days, min_history, kpi_names)
    /\ UNCHANGED <<run, prevRun>>

RecomputeFails(c, threshold, window_days, min_history, kpi_names) ==
    /\ RecomputeRaises(c, threshold, window_days, min_history, kpi_names)
    /\ UNCHANGED <<run, prevRun>>

Next ==
    \/ \E p \in StoreParams, f \in Filters : RecomputeAnomalies("c1", p[1], p[2], p[3], f)
    \/ \E p \in StoreParams, f \in Filters : RecomputeFails("c1", p[1], p[2], p[3], f)
    \/ \E k \in KpiNames, d \in Dates, r \in RequestIds : ExplainKpi("c1", k, d, r)
    \/ \E k \in KpiNames \cup {UnknownKpi}, d \in Dates : ExplainNotFound("c1", k, d)
    \/ CloseConnection("c1")

Spec == Init /\ [][Next]_vars

----------------------------------------------------------------------------
(* The scorer run twice over one mart: a first run with any parameters, then a
   second run that changes at most the threshold *)

InitScore ==
    \E facts \in Marts({KpiOrder[2]}, ScoreLen, ScoreValues) : InitWith(facts, Registry)

ScoredRun(c, threshold, window_days, min_history, kpi_names) ==
    /\ RecomputeCall(c, threshold, window_days, min_history, kpi_names)
    /\ run' = [threshold |-> threshold, window_days |-> window_days,
               min_history |-> min_history, kpi_names |-> kpi_names,
               out |-> last'.out, table |-> anomalies']
    /\ prevRun' = run

FirstRun ==
    /\ run = NoRun
    /\ \E t \in Thresholds, w \in Windows, m \in MinHistories, f \in {{}, {KpiOrder[2]}} :
          ScoredRun("c1", t, w, m, f)

SecondRun ==
    /\ run # NoRun
    /\ prevRun = NoRun
    /\ \E t \in Thresholds :
          ScoredRun("c1", t, run.window_days, run.min_history, run.kpi_names)

NextScore == FirstRun \/ SecondRun

SpecScore == InitScore /\ [][NextScore]_vars

----------------------------------------------------------------------------
(* The same two runs over series of two levels, 0.0 and 0.00019: three equal
   observations of 0.00019 have a mean that float64 rounds away from 0.00019 *)

SpreadValues == {0, 19}

InitSpread ==
    \E facts \in Marts({KpiOrder[2]}, ScoreLen, SpreadValues) : InitWith(facts, Registry)

SpecSpread == InitSpread /\ [][NextScore]_vars

----------------------------------------------------------------------------
(* Two runs with a reload of scenario_registry between them *)

RegistryRow(scenario_tag, scenario_date, kpi_name) ==
    [scenario_tag |-> scenario_tag, scenario_date |-> scenario_date, kpi_name |-> kpi_name]

\* contents of scenario_registry: none, the generated scenario, a scenario for another
\* KPI or another day, a row without kpi_name, another tag, two rows for one key
Registries ==
    {<<>>,
     Registry,
     <<RegistryRow("Scenario B", 2, KpiOrder[1])>>,
     <<RegistryRow("Scenario B", 3, KpiOrder[2])>>,
     <<RegistryRow("Scenario B", 2, NULL)>>,
     <<RegistryRow("Scenario B", 2, KpiOrder[2])>>,
     Registry \o <<RegistryRow("Scenario B", 2, KpiOrder[2])>>}

InitRegistry ==
    \E facts \in Marts({KpiOrder[2]}, MaxWindow, StoreValues) : InitWith(facts, Registry)

\* the registry table is given another content between the two runs
LoadRegistry ==
    /\ run # NoRun
    /\ prevRun = NoRun
    /\ \E registry \in Registries \ {scenario_registry} : scenario_registry' = registry
    /\ UNCHANGED <<fact_kpi_daily, anomalies, explain_audit_log, txn, pc, call, clock, last,
                   before, failed, run, prevRun, observed, lastCommitted, fact_jobs,
                   fact_comms, fact_incidents, attribution, prevAttribution>>

NextRegistry == FirstRun \/ LoadRegistry \/ SecondRun

SpecRegistry == InitRegistry /\ [][NextRegistry]_vars

----------------------------------------------------------------------------
(* POST /anomalies/run (routes/anomalies.py lines 33-60) next to direct calls of
   recompute_anomalies *)

\* the longest series of this specification
HistoryLen == 9

\* AnomalyRunRequest.window_days: ge = 7 (models.py line 45)
MinWindowDays == 7

\* max(8, payload.window_days) of routes/anomalies.py line 46
EndpointMinHistory == 8

\* one KPI, flat at 0 or flat with a step on its last day
EndpointMarts ==
    UNION {{MartOf({KpiOrder[2]}, n, f) :
                f \in [{KpiOrder[2]} -> {[d \in 1 .. n |-> 0],
                                        [d \in 1 .. n |-> IF d = n THEN 7 ELSE 0]}]} :
           n \in 0 .. HistoryLen}

InitEndpoint ==
    \E facts \in EndpointMarts : InitWith(facts, Registry)

\* run_anomalies, lines 41-47: no KPI filter, min_history = max(8, window_days)
RunAnomalies ==
    /\ pc["c1"] = "idle"
    /\ \E t \in {0, DefaultThreshold}, w \in {MinWindowDays, MinWindowDays + 1} :
          ScoredRun("c1", t, w, Max(EndpointMinHistory, w), {})

\* a direct call, with or without a filter on a KPI that has no observation
DirectRun ==
    /\ pc["c1"] = "idle"
    /\ \E w \in Windows, m \in 0 .. MaxWindow + 1, f \in {{}, {KpiOrder[1]}} :
          ScoredRun("c1", 0, w, m, f)

NextEndpoint == RunAnomalies \/ DirectRun

SpecEndpoint == InitEndpoint /\ [][NextEndpoint]_vars

----------------------------------------------------------------------------
(* One run over two KPIs whose series differ in length, in values and in the days
   between their observations *)

\* the first KPI has an observation on each of the days 1..n1, the second on the days
\* 2, 4, .. 2 * n2
GappedMarts ==
    UNION {{ {[kpi_name |-> KpiOrder[1], date |-> d, value |-> f[d]] : d \in 1 .. n[1]}
             \cup {[kpi_name |-> KpiOrder[2], date |-> 2 * d, value |-> g[d]] :
                      d \in 1 .. n[2]} :
               f \in [1 .. n[1] -> StoreValues], g \in [1 .. n[2] -> StoreValues]} :
           n \in (0 .. MaxWindow) \X (0 .. MaxWindow)}

InitLocal ==
    \E facts \in GappedMarts : InitWith(facts, Registry)

\* a call without a filter
UnfilteredRun ==
    /\ run = NoRun
    /\ \E t \in {0, DefaultThreshold}, w \in Windows, m \in MinHistories :
          ScoredRun("c1", t, w, m, {})

SpecLocal == InitLocal /\ [][UnfilteredRun]_vars

----------------------------------------------------------------------------
(* recompute_anomalies statement by statement on separate connections of one SQLite
   file, interleaved with GET /anomalies.  A connection sees its own uncommitted
   writes; every other connection reads the committed table; one connection at a
   time holds the write lock, from its first write to its commit or close. *)

InitConc ==
    \E facts \in Marts({KpiOrder[2]}, MaxLen + 1, StoreValues) : InitWith(facts, Registry)

\* lines 32-99: read the frame and score it; an empty frame returns at line 42
RcBegin(c, threshold, window_days, min_history, kpi_names) ==
    LET frame == ReadFrame(fact_kpi_daily, kpi_names)
        rows == ComputeRows(fact_kpi_daily, scenario_registry, threshold, window_days,
                            min_history, kpi_names, clock)
    IN  /\ pc[c] = "idle"
        /\ clock < MaxClock
        /\ clock' = clock + 1
        /\ IF frame = {}
           THEN /\ last' = [op |-> "recompute", kpi_names |-> kpi_names, out |-> <<>>,
                            status |-> "ok", frame_empty |-> TRUE]
                /\ before' = anomalies
                /\ UNCHANGED <<pc, call>>
           ELSE /\ pc' = [pc EXCEPT ![c] = "scored"]
                /\ call' = [call EXCEPT ![c] = [op |-> "recompute", kpi_names |-> kpi_names,
                                                rows |-> rows]]
                /\ UNCHANGED <<last, before>>
        /\ UNCHANGED <<fact_jobs, fact_comms, fact_incidents, attribution, prevAttribution>>
        /\ UNCHANGED <<fact_kpi_daily, scenario_registry, anomalies, explain_audit_log, txn,
                       failed, run, prevRun, observed, lastCommitted>>

\* the DELETE with its implicit BEGIN committed on its own (autocommit mode)
RcDeleteAutocommit(c) ==
    /\ pc[c] = "scored"
    /\ CanWrite(c)
    /\ anomalies' = <<>>
    /\ txn' = [txn EXCEPT ![c] = OpenTxn(<<>>)]
    /\ pc' = [pc EXCEPT ![c] = "deleted"]
    /\ UNCHANGED <<fact_jobs, fact_comms, fact_incidents, attribution, prevAttribution>>
    /\ UNCHANGED <<fact_kpi_daily, scenario_registry, explain_audit_log, call, clock, last,
                   before, failed, run, prevRun, observed, lastCommitted>>

\* line 101: DELETE FROM anomalies opens the transaction and takes the write lock
RcDelete(c) ==
    /\ pc[c] = "scored"
    /\ CanWrite(c)
    /\ txn' = [txn EXCEPT ![c] = OpenTxn(<<>>)]
    /\ pc' = [pc EXCEPT ![c] = "deleted"]
    /\ UNCHANGED <<fact_jobs, fact_comms, fact_incidents, attribution, prevAttribution>>
    /\ UNCHANGED <<fact_kpi_daily, scenario_registry, anomalies, explain_audit_log, call,
                   clock, last, before, failed, run, prevRun, observed, lastCommitted>>

\* line 101 while another connection holds the write lock: sqlite3.OperationalError
\* (database is locked) leaves the function, and get_connection closes the connection
RcDeleteBusy(c) ==
    /\ pc[c] = "scored"
    /\ ~CanWrite(c)
    /\ pc' = [pc EXCEPT ![c] = "idle"]
    /\ call' = [call EXCEPT ![c] = NoCall]
    /\ last' = [op |-> "recompute", kpi_names |-> call[c].kpi_names, out |-> <<>>,
                status |-> "storage_error", frame_empty |-> FALSE]
    /\ before' = anomalies
    /\ UNCHANGED <<fact_jobs, fact_comms, fact_incidents, attribution, prevAttribution>>
    /\ UNCHANGED <<fact_kpi_daily, scenario_registry, anomalies, explain_audit_log, txn,
                   clock, failed, run, prevRun, observed, lastCommitted>>

\* lines 102-109: executemany inserts the next flagged row
RcInsert(c) ==
    /\ pc[c] = "deleted"
    /\ Len(txn[c].rows) < Len(call[c].rows)
    /\ txn' = [txn EXCEPT ![c] = OpenTxn(Append(txn[c].rows,
                                                call[c].rows[Len(txn[c].rows) + 1]))]
    /\ UNCHANGED <<fact_jobs, fact_comms, fact_incidents, attribution, prevAttribution>>
    /\ UNCHANGED <<fact_kpi_daily, scenario_registry, anomalies, explain_audit_log, pc, call,
                   clock, last, before, failed, run, prevRun, observed, lastCommitted>>

\* an INSERT or the COMMIT raises: the error leaves the function and get_connection
\* closes the connection, which discards the transaction
RcInsertRaises(c) ==
    /\ pc[c] = "deleted"
    /\ txn' = [txn EXCEPT ![c] = NoTxn]
    /\ pc' = [pc EXCEPT ![c] = "idle"]
    /\ call' = [call EXCEPT ![c] = NoCall]
    /\ last' = [op |-> "recompute", kpi_names |-> call[c].kpi_names, out |-> <<>>,
                status |-> "storage_error", frame_empty |-> FALSE]
    /\ before' = anomalies
    /\ UNCHANGED <<fact_jobs, fact_comms, fact_incidents, attribution, prevAttribution>>
    /\ UNCHANGED <<fact_kpi_daily, scenario_registry, anomalies, explain_audit_log, clock,
                   failed, run, prevRun, observed, lastCommitted>>

\* lines 110-111: conn.commit() and return
RcCommit(c) ==
    /\ pc[c] = "deleted"
    /\ Len(txn[c].rows) = Len(call[c].rows)
    /\ anomalies' = txn[c].rows
    /\ lastCommitted' = call[c].rows
    /\ txn' = [txn EXCEPT ![c] = NoTxn]
    /\ pc' = [pc EXCEPT ![c] = "idle"]
    /\ call' = [call EXCEPT ![c] = NoCall]
    /\ last' = [op |-> "recompute", kpi_names |-> call[c].kpi_names, out |-> call[c].rows,
                status |-> "ok", frame_empty |-> FALSE]
    /\ before' = anomalies
    /\ UNCHANGED <<fact_jobs, fact_comms, fact_incidents, attribution, prevAttribution>>
    /\ UNCHANGED <<fact_kpi_daily, scenario_registry, explain_audit_log, clock, failed, run,
                   prevRun, observed>>

\* ORDER BY score DESC, date DESC; the order of rows equal in both is not defined
Ordered(rows) ==
    \A i \in 1 .. Len(rows) - 1 :
        \/ rows[i].score > rows[i + 1].score
        \/ rows[i].score = rows[i + 1].score /\ rows[i].date >= rows[i + 1].date

\* the reader's own connection has no open transaction: it reads the committed table
ListAnomalies ==
    \E order \in [DOMAIN anomalies -> DOMAIN anomalies] :
        LET items == [i \in DOMAIN anomalies |-> anomalies[order[i]]]
        IN  /\ \A i, j \in DOMAIN anomalies : i # j => order[i] # order[j]
            /\ Ordered(SelectSeq(items, LAMBDA r : r.status = "open"))
            /\ observed' = [items |-> SelectSeq(items, LAMBDA r : r.status = "open"),
                            complete |-> lastCommitted,
                            during |-> {pc[c] : c \in Conns},
                            pending |-> {txn[c].rows : c \in {d \in Conns : txn[d].open}}]
            /\ UNCHANGED <<fact_jobs, fact_comms, fact_incidents, attribution, prevAttribution>>
            /\ UNCHANGED <<fact_kpi_daily, scenario_registry, anomalies, explain_audit_log,
                           txn, pc, call, clock, last, before, failed, run, prevRun,
                           lastCommitted>>

NextConc ==
    \/ \E c \in Conns, p \in StoreParams, f \in {{}, {UnknownKpi}} :
          RcBegin(c, p[1], p[2], p[3], f)
    \/ \E c \in Conns : RcDelete(c)
    \/ \E c \in Conns : RcDeleteBusy(c)
    \/ \E c \in Conns : RcInsert(c)
    \/ \E c \in Conns : RcInsertRaises(c)
    \/ \E c \in Conns : RcCommit(c)
    \/ ListAnomalies

SpecConc == InitConc /\ [][NextConc]_vars

----------------------------------------------------------------------------
(* The synthetic series of the day-85 scenario: ScenarioDays observations of one KPI
   that alternate between two levels a and b up to a switch day and stay at a from
   then on, with a spike on SpikeDay of 3 times the median of the DefaultWindowDays
   observations before it, scored once with the default parameters *)

ScenarioDays == 120

SpikeDay == 85

MaxBase == 8

\* the switch day: inside the spike's window, at its end, or never
Switches == {SpikeDay - 13, SpikeDay - 2, ScenarioDays + 1}

Regular(a, b, phase, switch, d) ==
    IF d >= switch \/ (d + phase) % 2 = 0 THEN a ELSE b

\* twice the median of the DefaultWindowDays observations before SpikeDay
BeforeSpike2(a, b, phase, switch) ==
    Median2([j \in 1 .. DefaultWindowDays |->
                Regular(a, b, phase, switch, SpikeDay - DefaultWindowDays - 1 + j)])

ScenarioSeries(a, b, phase, switch) ==
    [d \in 1 .. ScenarioDays |->
        IF d = SpikeDay THEN (3 * BeforeSpike2(a, b, phase, switch)) \div 2
        ELSE Regular(a, b, phase, switch, d)]

InitScenario ==
    \E a \in 0 .. MaxBase, b \in 0 .. MaxBase, phase \in {0, 1}, switch \in Switches :
        /\ BeforeSpike2(a, b, phase, switch) % 2 = 0
        /\ InitWith({[kpi_name |-> KpiOrder[2], date |-> d,
                      value |-> ScenarioSeries(a, b, phase, switch)[d]] :
                        d \in 1 .. ScenarioDays},
                    Registry)

NextScenario ==
    /\ run = NoRun
    /\ ScoredRun("c1", DefaultThreshold, DefaultWindowDays, DefaultMinHistory, {})

SpecScenario == InitScenario /\ [][NextScenario]_vars

----------------------------------------------------------------------------
(* Attribution calls over generated marts *)

AttributionKpis == RateKpis \cup {DataQualityKpi, UnknownKpi}

TargetDates == {NotADate, 1, TargetDay, QuietDay}

BaselineDays == {0, 1, MaxBaselineDays}

TopNs == {0, 1, DefaultTopN}

InitDrivers == \E mart \in AttributionMarts : InitMart({}, <<>>, mart)

\* the call with every result logged to the audit table
ComputeTopDriversCallAudited(kpi_name, target_date, baseline_days, top_n) ==
    /\ attribution' = [kpi_name |-> kpi_name, target_date |-> target_date,
                       baseline_days |-> baseline_days, top_n |-> top_n, db |-> Db,
                       result |-> ComputeTopDrivers(Db, kpi_name, target_date,
                                                    baseline_days, top_n)]
    /\ prevAttribution' = attribution
    /\ explain_audit_log' =
           Append(explain_audit_log,
                  AuditRow(explain_audit_log, clock, kpi_name, target_date, <<>>, <<>>, Null))
    /\ UNCHANGED <<fact_jobs, fact_comms, fact_incidents, fact_kpi_daily, scenario_registry,
                   anomalies, txn, pc, call, clock, last, before, failed,
                   run, prevRun, observed, lastCommitted>>

\* compute_top_drivers(conn, kpi_name, target_date, baseline_days, top_n): SELECTs only
ComputeTopDriversCall(kpi_name, target_date, baseline_days, top_n) ==
    /\ attribution' = [kpi_name |-> kpi_name, target_date |-> target_date,
                       baseline_days |-> baseline_days, top_n |-> top_n, db |-> Db,
                       result |-> ComputeTopDrivers(Db, kpi_name, target_date,
                                                    baseline_days, top_n)]
    /\ prevAttribution' = attribution
    /\ UNCHANGED <<fact_jobs, fact_comms, fact_incidents, fact_kpi_daily, scenario_registry,
                   anomalies, explain_audit_log, txn, pc, call, clock, last, before, failed,
                   run, prevRun, observed, lastCommitted>>

FirstAttribution ==
    /\ attribution = NoAttribution
    /\ \E k \in AttributionKpis, d \in TargetDates, b \in BaselineDays, n \in TopNs :
          ComputeTopDriversCall(k, d, b, n)

\* the same call again
SecondAttribution ==
    /\ attribution # NoAttribution
    /\ prevAttribution = NoAttribution
    /\ ComputeTopDriversCall(attribution.kpi_name, attribution.target_date,
                             attribution.baseline_days, attribution.top_n)

\* a job that goes wrong, loaded for NorthHaul on the target day
LateJob ==
    [job_id |-> JobId(2, QuietDay), date |-> TargetDay, site_name |-> "Leeds",
     tier |-> "Gold", carrier_name |-> "NorthHaul", product_family |-> "Ambient",
     status |-> "Delivered", delivered_date_key |-> Null, duplicate_flag |-> 0]

\* load_mart.py between two calls: the only writer of the fact tables
LoadJob ==
    /\ attribution # NoAttribution
    /\ prevAttribution = NoAttribution
    /\ LateJob \notin fact_jobs
    /\ fact_jobs' = fact_jobs \cup {LateJob}
    /\ fact_comms' = fact_comms \cup CommsOfJobs({LateJob})
    /\ fact_incidents' = fact_incidents \cup IncidentsOfJobs({LateJob})
    /\ UNCHANGED <<attribution, prevAttribution, fact_kpi_daily, scenario_registry,
                   anomalies, explain_audit_log, txn, pc, call, clock, last, before, failed,
                   run, prevRun, observed, lastCommitted>>

NextDrivers == FirstAttribution \/ SecondAttribution \/ LoadJob

SpecDrivers == InitDrivers /\ [][NextDrivers]_vars

----------------------------------------------------------------------------
(* Claims about the anomalies table *)

Keys(rows) == {<<rows[i].kpi_name, rows[i].date>> : i \in DOMAIN rows}

OtherRows(rows, kpi_names) == SelectSeq(rows, LAMBDA r : r.kpi_name \notin kpi_names)

Returned == last.op = "recompute" /\ last.status = "ok"

\* C1: after a recompute_anomalies call has returned, the anomalies table holds exactly
\* the records that call flagged, and nothing an earlier call wrote
C1_TableIsLastFlaggedSet == Returned => anomalies = last.out

\* C2: a scorer run with a KPI filter (a direct call, or the run explain_kpi triggers)
\* leaves the stored anomalies of the KPIs outside the filter as they were
C2_FilterKeepsOtherKpis ==
    ((Returned \/ (last.op = "explain" /\ last.status = "ok_scored")) /\ last.kpi_names # {})
        => OtherRows(anomalies, last.kpi_names) = OtherRows(before, last.kpi_names)

\* C3: a call whose frame is empty returns [] and has deleted the anomalies table
C3_EmptyFrameStillDeletes ==
    (Returned /\ last.frame_empty) => (last.out = <<>> /\ anomalies = <<>>)

\* C8 as claimed: once a recomputation has raised after its DELETE, the committed
\* table holds the rows it held before that call, whatever the connection does next
C8_FailedRunLeavesNoTrace == failed # NoFail => anomalies = failed.rows

\* C8 as amended: the failed call raises and commits nothing; the committed table
\* holds the rows it held before the call until something commits on that connection
C8_FailedRunCommitsNothing ==
    /\ (failed # NoFail /\ ~failed.committed) => anomalies = failed.rows
    /\ (last.op = "recompute" /\ last.status = "storage_error") => anomalies = before

\* a recomputation failed over a non-empty table and its connection was closed
C8_Witness ==
    /\ failed # NoFail
    /\ ~failed.committed
    /\ ~txn[failed.conn].open
    /\ failed.rows # <<>>
    /\ anomalies = failed.rows

----------------------------------------------------------------------------
(* Claims about what the scorer flags *)

Preceding(r) == {f \in fact_kpi_daily : f.kpi_name = r.kpi_name /\ f.date < r.date}

\* the observations of Preceding(r) among the window_days latest ones
InWindow(r, window_days) ==
    {f \in Preceding(r) : Cardinality({g \in Preceding(r) : g.date > f.date}) < window_days}

\* C4: a flagged observation has at least min_history observations before it, and at
\* least min_history of them inside its trailing window; the others give no record
C4_WindowSufficiency ==
    run # NoRun =>
        \A r \in Range(run.out) :
            /\ Cardinality(Preceding(r)) >= run.min_history
            /\ Cardinality(InWindow(r, run.window_days)) >= run.min_history

\* a run flagged something and skipped a day that is far above the threshold against
\* the few observations before it
C4_Witness ==
    /\ run # NoRun
    /\ run.out # <<>>
    /\ \E f \in fact_kpi_daily :
          /\ Cardinality(Preceding(f)) \in 1 .. run.min_history - 1
          /\ <<f.kpi_name, f.date>> \notin Keys(run.out)
          /\ ScoreExceeds(ScoreAt(ValuesOf(SortByDate(ReadFrame(fact_kpi_daily, {f.kpi_name}))),
                                  Cardinality(Preceding(f)), run.window_days),
                          run.threshold)

\* C5: the score stored in every returned and persisted record is non-negative and
\* strictly greater than the threshold of the call
C5_RecordedScoreAboveThreshold ==
    run # NoRun =>
        \A r \in Range(run.out) \cup Range(run.table) :
            r.score >= 0 /\ r.score > run.threshold

SameSeriesAndWindow ==
    /\ run # NoRun
    /\ prevRun # NoRun
    /\ run.window_days = prevRun.window_days
    /\ run.min_history = prevRun.min_history
    /\ run.kpi_names = prevRun.kpi_names

\* C6: of two runs that differ in the threshold only, the one with the higher threshold
\* flags a subset of the (kpi_name, date) pairs of the other, so no more of them
C6_ThresholdMonotone ==
    SameSeriesAndWindow =>
        /\ prevRun.threshold < run.threshold =>
              /\ Keys(run.out) \subseteq Keys(prevRun.out)
              /\ Len(run.out) <= Len(prevRun.out)
        /\ run.threshold < prevRun.threshold =>
              /\ Keys(prevRun.out) \subseteq Keys(run.out)
              /\ Len(prevRun.out) <= Len(run.out)

\* the threshold was raised and the flagged set shrank without becoming empty
C6_Witness ==
    /\ SameSeriesAndWindow
    /\ prevRun.threshold < run.threshold
    /\ run.out # <<>>
    /\ Keys(run.out) # Keys(prevRun.out)

SameParameters == SameSeriesAndWindow /\ run.threshold = prevRun.threshold

\* C7 as claimed: two runs with the same parameters return the same list and leave the
\* same table, field for field
C7_IdenticalRuns ==
    SameParameters => (run.out = prevRun.out /\ run.table = prevRun.table)

WithoutCreatedAt(rows) == [i \in DOMAIN rows |-> [rows[i] EXCEPT !.created_at = 0]]

\* C7 as amended: they return the same list and leave the same table, in the same
\* order and field for field, except for created_at
C7_IdenticalUpToCreatedAt ==
    SameParameters =>
        /\ WithoutCreatedAt(run.out) = WithoutCreatedAt(prevRun.out)
        /\ WithoutCreatedAt(run.table) = WithoutCreatedAt(prevRun.table)

\* the same parameters were run twice and flagged something both times
C7_Witness ==
    /\ SameParameters
    /\ run.out # <<>>
    /\ run.table # <<>>
    /\ run.out # prevRun.out

----------------------------------------------------------------------------
(* Claims about concurrent recomputations and readers *)

\* C9: whatever the interleaving, the committed anomalies table is the complete flagged
\* set of the call that committed last (or the complete set present at the start), and
\* so is what every reader gets: never the emptied table between DELETE and INSERT,
\* never a part of a flagged set, never rows of two calls
C9_ReadersSeeCompleteSets ==
    /\ Range(anomalies) = Range(lastCommitted)
    /\ Len(anomalies) = Len(lastCommitted)
    /\ observed # NoRead =>
          /\ Range(observed.items) = Range(observed.complete)
          /\ Len(observed.items) = Len(observed.complete)

\* a reader got a non-empty table while a recomputation was between its DELETE and its
\* COMMIT, with a part of its flagged set inserted
C9_Witness ==
    /\ observed # NoRead
    /\ "deleted" \in observed.during
    /\ observed.items # <<>>
    /\ \E rows \in observed.pending : rows # <<>> /\ Len(rows) < Len(observed.items)

----------------------------------------------------------------------------
(* Claims about the day-85 scenario *)

Series == ValuesOf(SortByDate(fact_kpi_daily))

Trailing(series, day) == History(series, day - 1, DefaultWindowDays)

\* |value - median| <= MAD, for the trailing window of the day
WithinOneMad(series, day) ==
    2 * Abs(2 * series[day] - Median2(Trailing(series, day))) <= Mad4(Trailing(series, day))

\* the premise: the spike is 3 times the median before it, and every other day that
\* has a full trailing window lies within 1 MAD of the median of that window
DaySpikeScenario ==
    LET series == Series
    IN  /\ Len(series) = ScenarioDays
        /\ 2 * series[SpikeDay] = 3 * Median2(Trailing(series, SpikeDay))
        /\ \A day \in (DefaultWindowDays + 1 .. ScenarioDays) \ {SpikeDay} :
              WithinOneMad(series, day)

FlaggedDays == {run.out[i].date : i \in DOMAIN run.out}

\* C10 as claimed: in the scenario the run flags day 85 and no other day
C10_FlagsExactlySpikeDay ==
    (run # NoRun /\ DaySpikeScenario) => FlaggedDays = {SpikeDay}

\* the spike's distance from the median, which is 2 |median|, is more than 3 times
\* the scale of the window before it: 1.4826 MAD, else the standard deviation, else 1e-9
SpikeStandsOut ==
    LET hist == Trailing(Series, SpikeDay)
        b2 == Abs(Median2(hist))
        mad4 == Mad4(hist)
        n == Len(hist)
        v == VarianceN2(hist)
    IN  IF mad4 # 0 THEN 4 * b2 * ScoreScale > 3 * MadFactor * mad4
        ELSE IF v # 0 THEN b2 * b2 * n * n > 9 * v
        ELSE b2 # 0

\* C10 as amended: in the scenario the run flags no day other than day 85, and it flags
\* day 85 exactly when the spike stands out from the window before it
C10_FlagsSpikeDayIfItStandsOut ==
    (run # NoRun /\ DaySpikeScenario) =>
        /\ FlaggedDays \subseteq {SpikeDay}
        /\ SpikeDay \in FlaggedDays <=> SpikeStandsOut

\* a scenario series that varies around its median, with the spike flagged
C10_Witness ==
    /\ run # NoRun
    /\ DaySpikeScenario
    /\ Mad4(Trailing(Series, SpikeDay)) # 0
    /\ FlaggedDays = {SpikeDay}

----------------------------------------------------------------------------
(* C20 *)

InRun(f) == run.kpi_names = {} \/ f.kpi_name \in run.kpi_names

PassesHistoryChecks(f) ==
    /\ Cardinality(Preceding(f)) >= run.min_history
    /\ Min(Cardinality(Preceding(f)), run.window_days) >= run.min_history

ScoreOf(f) ==
    ScoreAt(ValuesOf(SortByDate(ReadFrame(fact_kpi_daily, {f.kpi_name}))),
            Cardinality(Preceding(f)), run.window_days)

RecordsOf(f) == SelectSeq(run.out, LAMBDA r : r.kpi_name = f.kpi_name /\ r.date = f.date)

\* C20: an observation that passes the history checks is flagged exactly when its score
\* is strictly greater than the threshold: then the run returns exactly one record for
\* it, with status "open", and otherwise (a score equal to the threshold included) none
C20_FlaggedIffAboveThreshold ==
    run # NoRun =>
        \A f \in fact_kpi_daily :
            InRun(f) /\ PassesHistoryChecks(f) =>
                IF ScoreExceeds(ScoreOf(f), run.threshold)
                THEN Len(RecordsOf(f)) = 1 /\ RecordsOf(f)[1].status = "open"
                ELSE RecordsOf(f) = <<>>

\* one run in which a scored day sits exactly on the threshold and gives no record
\* while another day of the series is above it and gives one
C20_Witness ==
    /\ run # NoRun
    /\ \E f, g \in fact_kpi_daily :
          /\ InRun(f) /\ PassesHistoryChecks(f)
          /\ ScoreOf(f).kind # "nan" /\ ScoreOf(f).c2 = 0 /\ run.threshold = 0
          /\ RecordsOf(f) = <<>>
          /\ InRun(g) /\ PassesHistoryChecks(g)
          /\ Len(RecordsOf(g)) = 1

----------------------------------------------------------------------------
(* C11 *)

\* the KPIs compute_top_drivers has a path for: the rate KPIs with their dimension
\* lists and the data-quality KPI with its site dimension
SupportedKpis == RateKpis \cup {DataQualityKpi}

\* C11: a compute_top_drivers call for a KPI without dimension configuration returns
\* exactly empty drivers and empty evidence and raises nothing, whatever target_date
\* (a malformed one included), baseline_days and top_n are
C11_UnsupportedKpiReturnsEmpty ==
    (attribution # NoAttribution /\ attribution.kpi_name \notin SupportedKpis) =>
        /\ DimensionConfigsForKpi(attribution.kpi_name) = <<>>
        /\ attribution.result = [raised |-> "none", drivers |-> <<>>, evidence |-> <<>>]

\* such a call with a target_date that is no date, over a mart in which the SLA KPI
\* has drivers to report
C11_Witness ==
    /\ attribution # NoAttribution
    /\ attribution.kpi_name = UnknownKpi
    /\ attribution.target_date = NotADate
    /\ attribution.result.evidence = <<>>
    /\ ComputeTopDrivers(attribution.db, "sla_breach_rate_pct", TargetDay,
                         MaxBaselineDays, DefaultTopN).drivers # <<>>

----------------------------------------------------------------------------
(* C12 *)

\* the call recorded in a is one for a rate KPI with a date for target_date
RateCall(a) ==
    /\ a # NoAttribution
    /\ a.kpi_name \in RateKpis
    /\ a.target_date # NotADate

\* the rows of the KPI's FROM clause that the call's baseline query selects
BaselineRowsOf(a) ==
    {r \in FromClause(a.db, a.kpi_name) :
        r.date \in (a.target_date - a.baseline_days) .. (a.target_date - 1)}

\* ... and those its anomaly-day query selects
AnomalyRowsOf(a) == {r \in FromClause(a.db, a.kpi_name) : r.date = a.target_date}

\* C12: a call of compute_top_drivers for a rate KPI returns (raises nothing) one
\* evidence entry per configured dimension, in the order of the configuration, each
\* with the anomaly-day parameter [target_date] and the baseline parameters
\* [target_date - baseline_days, target_date - 1]; when there is no fact row on the
\* target day nor in the baseline window, drivers is empty and so is every top_rows.
C12_EvidencePerDimension ==
    RateCall(attribution) =>
        LET configs == DimensionConfigsForKpi(attribution.kpi_name)
            result == attribution.result
        IN  /\ result.raised = "none"
            /\ Len(result.evidence) = Len(configs)
            /\ \A k \in DOMAIN configs :
                  /\ result.evidence[k].dimension = configs[k].dimension
                  /\ result.evidence[k].anomaly_params = <<attribution.target_date>>
                  /\ result.evidence[k].baseline_params =
                         <<attribution.target_date - attribution.baseline_days,
                           attribution.target_date - 1>>
            /\ (AnomalyRowsOf(attribution) = {} /\ BaselineRowsOf(attribution) = {}) =>
                  /\ result.drivers = <<>>
                  /\ \A k \in DOMAIN result.evidence : result.evidence[k].top_rows = <<>>

\* a call for a day after the last loaded one, on a mart that holds rows: six
\* evidence entries and no driver
C12_Witness ==
    /\ RateCall(attribution)
    /\ attribution.db.fact_comms # {}
    /\ attribution.baseline_days > 0
    /\ AnomalyRowsOf(attribution) = {}
    /\ BaselineRowsOf(attribution) = {}
    /\ Len(attribution.result.evidence) = 6
    /\ attribution.result.drivers = <<>>

----------------------------------------------------------------------------
(* C15 *)

\* the merged rows of the k-th configured dimension of the call recorded in a
MergedOf(a, k) ==
    LET cfg == DimensionConfigsForKpi(a.kpi_name)[k]
        joined == FromClause(a.db, a.kpi_name)
    IN  Merged(AnomalyQuery(joined, cfg, a.target_date),
               BaselineQuery(joined, cfg, a.target_date - a.baseline_days,
                             a.target_date - 1))

\* the sum of the anomaly numerators minus the sum of the baseline numerators (the
\* per-segment means of the baseline days), as a fraction
TotalNumeratorDelta(merged) ==
    FracSub(FracOfInt(SumSeq([i \in DOMAIN merged |-> merged[i].numerator_anomaly])),
            FracSum([i \in DOMAIN merged |->
                        BaselineMean(merged[i].numerator_sum, merged[i].days)]))

\* C15: on the rate-KPI path every dimension whose total numerator delta (the sum of
\* the anomaly numerators minus the sum of the baseline numerators) is zero has
\* contribution_share = 0 in every row, and the call raises nothing.
C15_ZeroTotalGivesZeroShare ==
    RateCall(attribution) =>
        /\ attribution.result.raised = "none"
        /\ \A k \in DOMAIN attribution.result.evidence :
              TotalNumeratorDelta(MergedOf(attribution, k))[1] = 0 =>
                  \A i \in DOMAIN attribution.result.evidence[k].top_rows :
                      attribution.result.evidence[k].top_rows[i].contribution_share = 0

----------------------------------------------------------------------------
(* C16 *)

\* the merged row of segment in the k-th configured dimension
MergedRowOf(a, k, segment) ==
    LET merged == MergedOf(a, k)
    IN  merged[CHOOSE i \in DOMAIN merged : merged[i].segment = segment]

\* numerator over denominator, 0 for a denominator of 0
RateOf(numerator, denominator) ==
    IF denominator = 0 THEN FracOfInt(0) ELSE Frac(numerator, denominator)

\* C16: in every row of a rate-KPI call delta_pct is null exactly when the row's
\* baseline_rate is not greater than 0 and is delta_abs / baseline_rate * 100
\* otherwise; with no data in [target_date - baseline_days, target_date - 1] every
\* row has baseline_rate = 0 and delta_pct null, and the call raises nothing.
C16_NullDeltaPctWithoutBaseline ==
    RateCall(attribution) =>
        LET result == attribution.result
        IN  /\ result.raised = "none"
            /\ \A k \in DOMAIN result.evidence :
                  \A i \in DOMAIN result.evidence[k].top_rows :
                      LET row == result.evidence[k].top_rows[i]
                          m == MergedRowOf(attribution, k, row.segment)
                          anomaly_rate == RateOf(m.numerator_anomaly, m.denominator_anomaly)
                          baseline_rate == RateOf(m.numerator_sum, m.denominator_sum)
                          delta_abs == FracSub(anomaly_rate, baseline_rate)
                      IN  /\ (row.delta_pct = Null) <=> ~(baseline_rate[1] > 0)
                          /\ baseline_rate[1] > 0 =>
                                row.delta_pct =
                                    Some(RoundFrac(FracMul(FracDiv(delta_abs, baseline_rate),
                                                           FracOfInt(100)), 4))
                          /\ BaselineRowsOf(attribution) = {} =>
                                /\ row.supporting_stats.baseline_rate = 0
                                /\ row.delta_pct = Null
            /\ \A i \in DOMAIN result.drivers :
                  /\ (result.drivers[i].delta_pct = Null) <=>
                         ~(result.drivers[i].supporting_stats.baseline_rate > 0)
                  /\ BaselineRowsOf(attribution) = {} =>
                         result.drivers[i].supporting_stats.baseline_rate = 0

\* a call whose baseline window is empty while the target day has rows: its first
\* driver has a rate on the day, a baseline rate of 0 and no delta_pct
C16_Witness ==
    /\ RateCall(attribution)
    /\ BaselineRowsOf(attribution) = {}
    /\ attribution.result.drivers # <<>>
    /\ attribution.result.drivers[1].supporting_stats.anomaly_rate > 0
    /\ attribution.result.drivers[1].supporting_stats.baseline_rate = 0
    /\ attribution.result.drivers[1].delta_pct = Null

----------------------------------------------------------------------------
(* C14 *)

\* the rows the call recorded in a built for a dimension (its evidence entry holds
\* them all while the dimension has no more than DefaultEvidenceRows segments)
RowsOf(a, dimension) ==
    LET evidence == a.result.evidence
        k == CHOOSE i \in DOMAIN evidence : evidence[i].dimension = dimension
    IN  evidence[k].top_rows

\* the volume (numerator) and the rate of one carrier segment are up on the target
\* day while every other carrier segment has the numerator and the denominator of
\* its baseline
SurgeInCarrier(a, segment) ==
    LET rows == RowsOf(a, "carrier")
    IN  /\ \E i \in DOMAIN rows :
              /\ rows[i].segment = segment
              /\ rows[i].supporting_stats.anomaly_numerator >
                     rows[i].supporting_stats.baseline_numerator
              /\ rows[i].delta_abs > 0
        /\ \A i \in DOMAIN rows :
              rows[i].segment # segment =>
                  /\ rows[i].supporting_stats.anomaly_numerator =
                         rows[i].supporting_stats.baseline_numerator
                  /\ rows[i].supporting_stats.anomaly_denominator =
                         rows[i].supporting_stats.baseline_denominator

\* |contribution_share| * |delta_abs| of x is below that of y
ProductBelow(x, y) ==
    LET px == BigMul(Abs(x.contribution_share), Abs(x.delta_abs))
        py == BigMul(Abs(y.contribution_share), Abs(y.delta_abs))
    IN  px[1] < py[1] \/ (px[1] = py[1] /\ px[2] < py[2])

\* every row of another dimension whose delta_abs and contribution_share are
\* positive has a smaller product than the carrier row of segment
NoRivalOf(a, segment) ==
    LET carrier == RowsOf(a, "carrier")
        own == carrier[CHOOSE i \in DOMAIN carrier : carrier[i].segment = segment]
    IN  \A k \in DOMAIN a.result.evidence :
            \A i \in DOMAIN a.result.evidence[k].top_rows :
                LET r == a.result.evidence[k].top_rows[i]
                IN  (r.dimension # "carrier" /\ r.delta_abs > 0 /\ r.contribution_share > 0)
                        => ProductBelow(r, own)

\* C14 as stated: a rate-KPI call (top_n >= 1) for a day on which the surge is in the
\* carrier segment NorthHaul alone, every other carrier segment flat against its
\* baseline, returns (carrier, NorthHaul) as its first driver.
C14_SurgingCarrierIsFirstDriver ==
    (/\ RateCall(attribution)
     /\ attribution.top_n >= 1
     /\ SurgeInCarrier(attribution, "NorthHaul")) =>
        /\ attribution.result.drivers # <<>>
        /\ attribution.result.drivers[1].dimension = "carrier"
        /\ attribution.result.drivers[1].segment = "NorthHaul"

\* C14, amended: ... provided no row of another dimension with positive delta_abs and
\* contribution_share has a product |contribution_share| * |delta_abs| as large as
\* that of the carrier row.
C14_SurgingCarrierIsFirstDriverWithoutRival ==
    (/\ RateCall(attribution)
     /\ attribution.top_n >= 1
     /\ SurgeInCarrier(attribution, "NorthHaul")
     /\ NoRivalOf(attribution, "NorthHaul")) =>
        /\ attribution.result.drivers # <<>>
        /\ attribution.result.drivers[1].dimension = "carrier"
        /\ attribution.result.drivers[1].segment = "NorthHaul"

\* a surge of NorthHaul on a day its site shares with no rival row: sites and the
\* customer tier have positive rows too, and the carrier row is returned first
C14_Witness ==
    /\ RateCall(attribution)
    /\ attribution.top_n >= 1
    /\ SurgeInCarrier(attribution, "NorthHaul")
    /\ NoRivalOf(attribution, "NorthHaul")
    /\ \E i \in DOMAIN RowsOf(attribution, "site") :
          /\ RowsOf(attribution, "site")[i].delta_abs > 0
          /\ RowsOf(attribution, "site")[i].contribution_share > 0
    /\ attribution.result.drivers[1].dimension = "carrier"
    /\ attribution.result.drivers[1].segment = "NorthHaul"

----------------------------------------------------------------------------
(* C13 *)

\* the two calls were made with the same arguments
SameArguments(a, b) ==
    /\ a.kpi_name = b.kpi_name
    /\ a.target_date = b.target_date
    /\ a.baseline_days = b.baseline_days
    /\ a.top_n = b.top_n

----------------------------------------------------------------------------
(* C17 *)

\* the step is a call of explain_kpi (a call that succeeds returns a new audit_id; one
\* that raises leaves at most last and before as they were)
ExplainStep == last'.op = "explain" /\ <<last', before'>> # <<last, before>>

\* C17: explain_kpi raises the not-found error (ValueError, a 404 for the caller of
\* the route) exactly for a (kpi_name, date) without an observation, and that call
\* changes nothing: no audit row, no scorer run, the anomalies table and the
\* connection's transaction as they were.
C17_NotFoundLeavesStoreUnchanged ==
    [][ExplainStep =>
          /\ (last'.status = "not_found") <=> ~HasFact(last'.kpi_name, last'.date)
          /\ (last'.status = "not_found") =>
                /\ last'.raised = "ValueError"
                /\ last'.http_status = 404
                /\ last'.out = <<>>
                /\ UNCHANGED <<fact_kpi_daily, scenario_registry, anomalies,
                               explain_audit_log, txn, run, lastCommitted, fact_jobs,
                               fact_comms, fact_incidents>>]_vars

\* a not-found call on a store that holds anomalies and an audit row
C17_Witness ==
    /\ last.op = "explain"
    /\ last.status = "not_found"
    /\ ~HasFact(last.kpi_name, last.date)
    /\ anomalies # <<>>
    /\ anomalies = before
    /\ explain_audit_log # <<>>

----------------------------------------------------------------------------
(* C18 *)

\* C18: a successful explain_kpi call appends one row to explain_audit_log and
\* leaves the rows before it as they were; the row has the call's kpi_name, date and
\* request_id, the serialized evidence and drivers and a null user_feedback; its id
\* is returned as audit_id and differs from the id of every earlier row.  No other
\* step changes the log.
C18_OneAuditRowPerExplanation ==
    [][IF last'.op = "explain" /\ last'.status # "not_found" /\ last' # last
       THEN LET n == Len(explain_audit_log)
                row == explain_audit_log'[n + 1]
            IN  /\ Len(explain_audit_log') = n + 1
                /\ SubSeq(explain_audit_log', 1, n) = explain_audit_log
                /\ row.kpi_name = last'.kpi_name
                /\ row.date = last'.date
                /\ row.request_id = last'.request_id
                /\ row.request_id # Null
                /\ row.sql_used = JsonDumps(last'.evidence)
                /\ row.slices_returned = JsonDumps(last'.drivers)
                /\ row.user_feedback = NULL
                /\ last'.audit_id = row.id
                /\ \A i \in 1 .. n : explain_audit_log[i].id # row.id
       ELSE explain_audit_log' = explain_audit_log]_vars

\* two successful calls, the first with the caller's request id and the second with
\* a generated one: two rows, the second one's id returned
C18_Witness ==
    /\ Len(explain_audit_log) = 2
    /\ explain_audit_log[1].id # explain_audit_log[2].id
    /\ explain_audit_log[1].request_id = <<"req", 1>>
    /\ explain_audit_log[2].request_id[1] = "uuid"
    /\ last.op = "explain"
    /\ last.status # "not_found"
    /\ last.audit_id = explain_audit_log[2].id

----------------------------------------------------------------------------
(* C19 *)

\* the records of the committed table for the (kpi_name, date) of the call
StoredFor(rows, c) ==
    {rows[i] : i \in {j \in DOMAIN rows : rows[j].kpi_name = c.kpi_name /\ rows[j].date = c.date}}

TopStored(rows, c) == {r \in StoredFor(rows, c) : \A q \in StoredFor(rows, c) : q.score <= r.score}

\* what C19 says of a successful explain_kpi call
ScorerRunsIffNoRecord ==
    /\ (last.status = "ok_scored") <=> (StoredFor(before, last) = {})
    /\ StoredFor(before, last) # {} =>
          /\ anomalies = before
          /\ \E r \in TopStored(before, last) :
                /\ last.anomaly_score = Some(r.score)
                /\ last.scenario_tag = r.scenario_tag
    /\ (StoredFor(before, last) = {} /\ StoredFor(anomalies, last) = {}) =>
          /\ last.anomaly_score = Null
          /\ last.scenario_tag = NULL

----------------------------------------------------------------------------
(* C21 *)

\* the values of the observations in the trailing window of f
WindowValues(f) == {g.value : g \in InWindow(f, run.window_days)}

\* |current - baseline| / 1e-9 rounded to 4 decimals, in units of 1/ScoreScale, for a
\* difference in value units
OverEpsilon(difference) == Abs(difference) * (EpsInv \div ValueScale) * ScoreScale

\* C21: a constant trailing window has MAD 0 and population standard deviation 0, so
\* the score is taken over 1e-9: an observation equal to the window's value scores 0
\* and gives no record, and one that differs from it is recorded with the score
\* |current - baseline| / 1e-9
C21_DegenerateSpreadScoredOverEpsilon ==
    run # NoRun =>
        \A f \in fact_kpi_daily :
            (InRun(f) /\ PassesHistoryChecks(f) /\ WindowValues(f) # {}) =>
                \A x \in WindowValues(f) :
                    WindowValues(f) = {x} =>
                        IF f.value = x THEN RecordsOf(f) = <<>>
                        ELSE /\ Len(RecordsOf(f)) = 1
                             /\ RecordsOf(f)[1].score = OverEpsilon(f.value - x)

----------------------------------------------------------------------------
(* C22 *)

\* the rows of the k-th configured dimension of the call recorded in a, each with its
\* driver_score, in the order of the merge
ScoredRowsOf(a, k) ==
    LET cfg == DimensionConfigsForKpi(a.kpi_name)[k]
        joined == FromClause(a.db, a.kpi_name)
    IN  BuildDriverRows(cfg.dimension,
                        AnomalyQuery(joined, cfg, a.target_date),
                        BaselineQuery(joined, cfg, a.target_date - a.baseline_days,
                                      a.target_date - 1), 0).rows

\* top is made of n rows of scored, no segment twice, in descending order of
\* (driver_score, contribution_share), and no row left out sorts before one of them
TopByDriverScore(top, scored, n) ==
    /\ Len(top) = n
    /\ \E at \in [DOMAIN top -> DOMAIN scored] :
          /\ \A i, j \in DOMAIN top : i # j => at[i] # at[j]
          /\ \A i \in DOMAIN top : top[i] = DropDriverScore(scored[at[i]])
          /\ \A i, j \in DOMAIN top :
                i < j => ~SortsBefore("driver_score", scored[at[j]], scored[at[i]])
          /\ \A i \in DOMAIN top :
                \A m \in DOMAIN scored \ {at[j] : j \in DOMAIN top} :
                    ~SortsBefore("driver_score", scored[m], scored[at[i]])

\* C22: in the result of a rate-KPI call, the top_rows of every evidence entry are the
\* top top_n segments of its dimension (all of them when there are fewer), top_n being
\* the argument of compute_top_drivers, in descending order of driver_score and then
\* of contribution_share; no top_rows is longer than top_n (calls with top_n >= 1)
C22_EvidenceHoldsTopNSegments ==
    (RateCall(attribution) /\ attribution.top_n >= 1) =>
        \A k \in DOMAIN attribution.result.evidence :
            LET scored == ScoredRowsOf(attribution, k)
                top_rows == attribution.result.evidence[k].top_rows
            IN  /\ Len(top_rows) <= attribution.top_n
                /\ TopByDriverScore(top_rows, scored, Min(attribution.top_n, Len(scored)))

----------------------------------------------------------------------------
(* C23 *)

RECURSIVE PooledRowsFrom(_, _)
\* the driver rows of the dimensions k, k + 1, ... of the call recorded in a
PooledRowsFrom(a, k) ==
    IF k > Len(DimensionConfigsForKpi(a.kpi_name)) THEN <<>>
    ELSE ScoredRowsOf(a, k) \o PooledRowsFrom(a, k + 1)

\* the pool the drivers are chosen from: the rows with delta_abs > 0 and
\* contribution_share > 0 when there is one, and all the rows otherwise
ChosenPool(rows) ==
    IF \E i \in DOMAIN rows : rows[i].delta_abs > 0 /\ rows[i].contribution_share > 0
    THEN SelectSeq(rows, LAMBDA r : r.delta_abs > 0 /\ r.contribution_share > 0)
    ELSE rows

\* |contribution_share| * |delta_abs| of a row, as <<high, low>>
ShareTimesDelta(r) == BigMul(Abs(r.contribution_share), Abs(r.delta_abs))

\* the product of x is greater than that of y
ProductAbove(x, y) ==
    \/ ShareTimesDelta(x)[1] > ShareTimesDelta(y)[1]
    \/ /\ ShareTimesDelta(x)[1] = ShareTimesDelta(y)[1]
       /\ ShareTimesDelta(x)[2] > ShareTimesDelta(y)[2]

\* x may stand before y: a greater product, or the same product and a greater
\* contribution_share, or both the same and a delta_abs that is not smaller
MayPrecede(x, y) ==
    \/ ProductAbove(x, y)
    \/ /\ ShareTimesDelta(x) = ShareTimesDelta(y)
       /\ \/ x.contribution_share > y.contribution_share
          \/ /\ x.contribution_share = y.contribution_share
             /\ x.delta_abs >= y.delta_abs

\* C23: the drivers of a rate-KPI call are min(top_n, size of the chosen pool) rows of
\* the chosen pool, ordered by |contribution_share| * |delta_abs| descending, then
\* contribution_share descending, then delta_abs descending, and no row of the pool
\* that is left out has a greater product than a returned row
C23_DriversAreTopOfChosenPool ==
    (RateCall(attribution) /\ attribution.top_n >= 0) =>
        LET pool == ChosenPool(PooledRowsFrom(attribution, 1))
            drivers == attribution.result.drivers
        IN  /\ Len(drivers) = Min(attribution.top_n, Len(pool))
            /\ \A i, j \in DOMAIN drivers : i < j => MayPrecede(drivers[i], drivers[j])
            /\ \E at \in [DOMAIN drivers -> DOMAIN pool] :
                  /\ \A i, j \in DOMAIN drivers : i # j => at[i] # at[j]
                  /\ \A i \in DOMAIN drivers : drivers[i] = pool[at[i]]
                  /\ \A m \in DOMAIN pool \ {at[i] : i \in DOMAIN drivers} :
                        \A i \in DOMAIN drivers : ~ProductAbove(pool[m], drivers[i])

\* a call that returns at least two rows and fewer than its pool holds: two
\* neighbours have the same product and are ordered by contribution_share, and the
\* first row has a greater product than a row of the pool
C23_Witness ==
    /\ RateCall(attribution)
    /\ Len(attribution.result.drivers) >= 2
    /\ Len(attribution.result.drivers) = attribution.top_n
    /\ Len(ChosenPool(PooledRowsFrom(attribution, 1))) > attribution.top_n
    /\ \E i \in 1 .. Len(attribution.result.drivers) - 1 :
          /\ ShareTimesDelta(attribution.result.drivers[i]) =
                 ShareTimesDelta(attribution.result.drivers[i + 1])
          /\ attribution.result.drivers[i].contribution_share >
                 attribution.result.drivers[i + 1].contribution_share
    /\ LET pool == ChosenPool(PooledRowsFrom(attribution, 1))
       IN  \E m \in DOMAIN pool : ProductAbove(attribution.result.drivers[1], pool[m])

----------------------------------------------------------------------------
(* C24 *)

\* delta_abs > 0 and contribution_share > 0
IsPositiveRow(r) == r.delta_abs > 0 /\ r.contribution_share > 0

\* C24: when a pooled row of a rate-KPI call has delta_abs > 0 and contribution_share
\* > 0, every returned driver has both; when no pooled row has both, the drivers are
\* taken from all the rows of all dimensions; so a call with top_n >= 1 for which a
\* dimension yielded a row returns at least one driver
C24_PositivePoolPreferred ==
    RateCall(attribution) =>
        LET rows == PooledRowsFrom(attribution, 1)
            drivers == attribution.result.drivers
        IN  /\ (\E m \in DOMAIN rows : IsPositiveRow(rows[m])) =>
                  \A i \in DOMAIN drivers : IsPositiveRow(drivers[i])
            /\ (\A m \in DOMAIN rows : ~IsPositiveRow(rows[m])) =>
                  /\ Len(drivers) = Min(Max(attribution.top_n, 0), Len(rows))
                  /\ \A i \in DOMAIN drivers : \E m \in DOMAIN rows : drivers[i] = rows[m]
            /\ (rows # <<>> /\ attribution.top_n >= 1) => drivers # <<>>

\* a call whose drivers are all positive although a row with a greater product than
\* the first driver was pooled: that row is not positive
C24_Witness ==
    /\ RateCall(attribution)
    /\ attribution.result.drivers # <<>>
    /\ \A i \in DOMAIN attribution.result.drivers :
          IsPositiveRow(attribution.result.drivers[i])
    /\ LET rows == PooledRowsFrom(attribution, 1)
       IN  \E m \in DOMAIN rows :
               /\ ~IsPositiveRow(rows[m])
               /\ ProductAbove(rows[m], attribution.result.drivers[1])

----------------------------------------------------------------------------
(* C25 *)

\* the rows of the baseline window that belong to segment in the k-th dimension
BaselineRowsOfSegment(a, k, segment) ==
    {r \in BaselineRowsOf(a) :
        FillSegment(SegmentExpr(r, DimensionConfigsForKpi(a.kpi_name)[k])) = segment}

\* per baseline day on which the segment has rows, its numerator and denominator
DailyAggregates(rows) ==
    {[date |-> d,
      numerator |-> Aggregate({r \in rows : r.date = d}, "numerator"),
      denominator |-> Aggregate({r \in rows : r.date = d}, "denominator")] :
        d \in {r.date : r \in rows}}

\* C25: in every row of a rate-KPI call whose segment has baseline rows, the baseline
\* numerator and denominator are the means of the segment's daily aggregates over the
\* baseline days on which it has rows; for a segment with rows on a single baseline
\* day they are that day's numerator and denominator, and the baseline rate is that
\* day's rate
C25_BaselineIsMeanOverActiveDays ==
    RateCall(attribution) =>
        \A k \in DOMAIN attribution.result.evidence :
            \A i \in DOMAIN attribution.result.evidence[k].top_rows :
                LET row == attribution.result.evidence[k].top_rows[i]
                    daily == DailyAggregates(
                                 BaselineRowsOfSegment(attribution, k, row.segment))
                    days == Cardinality(daily)
                IN  /\ days > 0 =>
                          /\ row.supporting_stats.baseline_numerator =
                                 RoundFrac(Frac(SumOver(daily, "numerator"), days), 4)
                          /\ row.supporting_stats.baseline_denominator =
                                 RoundFrac(Frac(SumOver(daily, "denominator"), days), 4)
                    /\ \A day \in daily :
                          daily = {day} =>
                              /\ row.supporting_stats.baseline_numerator =
                                     day.numerator * 10 ^ 4
                              /\ row.supporting_stats.baseline_denominator =
                                     day.denominator * 10 ^ 4
                              /\ row.supporting_stats.baseline_rate =
                                     RoundFrac(RateOf(day.numerator, day.denominator), 6)

\* a call over a window of MaxBaselineDays days in which a segment has rows on one
\* day only, with an exception or breach on it, while another segment of the same
\* dimension has rows on every day of the window
C25_Witness ==
    /\ RateCall(attribution)
    /\ attribution.baseline_days = MaxBaselineDays
    /\ \E k \in DOMAIN attribution.result.evidence :
          \E i, j \in DOMAIN attribution.result.evidence[k].top_rows :
              LET rows == attribution.result.evidence[k].top_rows
                  once == DailyAggregates(
                              BaselineRowsOfSegment(attribution, k, rows[i].segment))
                  daily == DailyAggregates(
                               BaselineRowsOfSegment(attribution, k, rows[j].segment))
              IN  /\ Cardinality(once) = 1
                  /\ Cardinality(daily) = MaxBaselineDays
                  /\ rows[i].supporting_stats.baseline_numerator > 0
                  /\ rows[i].supporting_stats.baseline_rate > 0

----------------------------------------------------------------------------
(* C26 *)

\* the segments of the k-th dimension that a set of rows of the FROM clause holds
SegmentsIn(a, k, rows) ==
    {FillSegment(SegmentExpr(r, DimensionConfigsForKpi(a.kpi_name)[k])) : r \in rows}

\* C26: the driver rows of every dimension of a rate-KPI call hold each segment seen on
\* the target day or in the baseline window exactly once and no other; a segment
\* without baseline rows has baseline numerator, denominator and rate 0 and no
\* delta_pct, and a segment without rows on the target day has anomaly numerator,
\* denominator and rate 0 and delta_abs = -baseline_rate
C26_OuterMergeZeroFills ==
    RateCall(attribution) =>
        \A k \in DOMAIN DimensionConfigsForKpi(attribution.kpi_name) :
            LET rows == ScoredRowsOf(attribution, k)
                on_day == SegmentsIn(attribution, k, AnomalyRowsOf(attribution))
                in_baseline == SegmentsIn(attribution, k, BaselineRowsOf(attribution))
            IN  /\ {rows[i].segment : i \in DOMAIN rows} = on_day \cup in_baseline
                /\ Len(rows) = Cardinality(on_day \cup in_baseline)
                /\ \A i \in DOMAIN rows :
                      /\ rows[i].segment \notin in_baseline =>
                            /\ rows[i].supporting_stats.baseline_numerator = 0
                            /\ rows[i].supporting_stats.baseline_denominator = 0
                            /\ rows[i].supporting_stats.baseline_rate = 0
                            /\ rows[i].delta_pct = Null
                      /\ rows[i].segment \notin on_day =>
                            /\ rows[i].supporting_stats.anomaly_numerator = 0
                            /\ rows[i].supporting_stats.anomaly_denominator = 0
                            /\ rows[i].supporting_stats.anomaly_rate = 0
                            /\ rows[i].delta_abs = - rows[i].supporting_stats.baseline_rate

\* a dimension with a segment seen on the target day only, with a rate above 0, and a
\* segment seen in the baseline window only, with a baseline rate above 0
C26_Witness ==
    /\ RateCall(attribution)
    /\ \E k \in DOMAIN attribution.result.evidence :
          LET rows == attribution.result.evidence[k].top_rows
              on_day == SegmentsIn(attribution, k, AnomalyRowsOf(attribution))
              in_baseline == SegmentsIn(attribution, k, BaselineRowsOf(attribution))
          IN  \E i, j \in DOMAIN rows :
                  /\ rows[i].segment \in on_day \ in_baseline
                  /\ rows[i].supporting_stats.anomaly_rate > 0
                  /\ rows[i].delta_pct = Null
                  /\ rows[j].segment \in in_baseline \ on_day
                  /\ rows[j].supporting_stats.baseline_rate > 0
                  /\ rows[j].delta_abs < 0

----------------------------------------------------------------------------
(* C27 *)

\* the call recorded in a is one for the data-quality KPI with a date for target_date
QualityCall(a) ==
    /\ a # NoAttribution
    /\ a.kpi_name = DataQualityKpi
    /\ a.target_date # NotADate

\* the sites with jobs on the target day or in the baseline window of the call
SitesOf(a) ==
    {j.site_name : j \in {x \in a.db.fact_jobs :
        x.date \in (a.target_date - a.baseline_days) .. a.target_date}}

\* delta_abs of a site: its penalty on the target day minus its baseline penalty
QualityDelta(a, site_name) ==
    QualityRow(a.db, site_name, a.target_date,
               a.target_date - a.baseline_days, a.target_date - 1).delta_abs

RECURSIVE PositiveDeltaSum(_, _)
\* the sum of max(0, delta_abs) over a set of sites
PositiveDeltaSum(a, sites) ==
    IF sites = {} THEN 0
    ELSE LET s == CHOOSE x \in sites : TRUE
         IN  Max(0, QualityDelta(a, s)) + PositiveDeltaSum(a, sites \ {s})

\* C27: a data-quality call raises nothing; every returned row has contribution_share
\* = max(0, delta_abs) / sum of max(0, delta_abs) over all sites (to 6 decimals), which
\* is within [0, 1] and 0 when the row's delta_abs is not positive, and 0 in every row
\* when no site has a positive delta_abs; the drivers are the top top_n sites by
\* contribution_share and then delta_abs, descending, and the top_rows of the one
\* evidence entry are the drivers
C27_QualitySharesOfPositiveDeltas ==
    QualityCall(attribution) =>
        LET result == attribution.result
            drivers == result.drivers
            sites == SitesOf(attribution)
            total == PositiveDeltaSum(attribution, sites)
        IN  /\ result.raised = "none"
            /\ Len(result.evidence) = 1
            /\ result.evidence[1].top_rows = drivers
            /\ Len(drivers) = Min(Max(attribution.top_n, 0), Cardinality(sites))
            /\ \A i, j \in DOMAIN drivers : i # j => drivers[i].segment # drivers[j].segment
            /\ \A i \in DOMAIN drivers :
                  /\ drivers[i].segment \in sites
                  /\ drivers[i].delta_abs = QualityDelta(attribution, drivers[i].segment)
                  /\ drivers[i].contribution_share >= 0
                  /\ drivers[i].contribution_share <= 10 ^ 6
                  /\ drivers[i].delta_abs <= 0 => drivers[i].contribution_share = 0
                  /\ total = 0 => drivers[i].contribution_share = 0
                  /\ total > 0 =>
                        drivers[i].contribution_share =
                            RoundFrac(Frac(Max(0, drivers[i].delta_abs), total), 6)
            /\ \A i, j \in DOMAIN drivers :
                  i < j =>
                      \/ drivers[i].contribution_share > drivers[j].contribution_share
                      \/ /\ drivers[i].contribution_share = drivers[j].contribution_share
                         /\ drivers[i].delta_abs >= drivers[j].delta_abs
            /\ \A s \in sites \ {drivers[i].segment : i \in DOMAIN drivers} :
                  \A i \in DOMAIN drivers :
                      LET share == IF total = 0 THEN 0
                                   ELSE RoundFrac(Frac(Max(0, QualityDelta(attribution, s)),
                                                       total), 6)
                      IN  \/ drivers[i].contribution_share > share
                          \/ /\ drivers[i].contribution_share = share
                             /\ drivers[i].delta_abs >= QualityDelta(attribution, s)

\* a call that returns two sites, one whose penalty rose and has the whole share and
\* one whose penalty fell and has none
C27_Witness ==
    /\ QualityCall(attribution)
    /\ Len(attribution.result.drivers) = 2
    /\ attribution.result.drivers[1].delta_abs > 0
    /\ attribution.result.drivers[1].contribution_share = 10 ^ 6
    /\ attribution.result.drivers[2].delta_abs < 0
    /\ attribution.result.drivers[2].contribution_share = 0

----------------------------------------------------------------------------
(* C28 *)

\* the records without their scenario_tag and created_at
WithoutTag(rows) ==
    [i \in DOMAIN rows |->
        [kpi_name |-> rows[i].kpi_name, date |-> rows[i].date, value |-> rows[i].value,
         baseline |-> rows[i].baseline, score |-> rows[i].score, status |-> rows[i].status]]

\* the tags the registry holds for (kpi_name, date)
TagsFor(registry, kpi_name, date) ==
    {registry[i].scenario_tag :
        i \in {j \in DOMAIN registry : /\ registry[j].kpi_name = kpi_name
                                       /\ registry[j].scenario_date = date}}

\* C28: a run returns normally whatever the registry holds; each of its records carries
\* a scenario_tag the registry holds for its (kpi_name, date), and null when it holds
\* none; and a run with the parameters of the run before it flags the same
\* (kpi_name, date) with the same value, baseline and score, whatever the registry held
\* at either run
C28_ScenarioTagIsAnnotation ==
    [][run' # run =>
          /\ last'.status = "ok"
          /\ \A i \in DOMAIN run'.out :
                LET tags == TagsFor(scenario_registry, run'.out[i].kpi_name, run'.out[i].date)
                IN  IF tags = {} THEN run'.out[i].scenario_tag = NULL
                    ELSE run'.out[i].scenario_tag \in tags
          /\ (/\ run # NoRun
              /\ run'.threshold = run.threshold
              /\ run'.window_days = run.window_days
              /\ run'.min_history = run.min_history
              /\ run'.kpi_names = run.kpi_names) =>
                 WithoutTag(run'.out) = WithoutTag(run.out)]_vars

\* two runs with the same parameters around a reload of the registry: the first tagged
\* its record "Scenario A", the second one, for the same day, carries another tag or
\* none
C28_Witness ==
    /\ SameParameters
    /\ run.out # <<>>
    /\ WithoutTag(run.out) = WithoutTag(prevRun.out)
    /\ \E i \in DOMAIN run.out :
          /\ prevRun.out[i].scenario_tag = "Scenario A"
          /\ run.out[i].scenario_tag # "Scenario A"
    /\ \E i \in DOMAIN run.out : run.out[i].scenario_tag = NULL

----------------------------------------------------------------------------
(* C29 *)

\* C29: a run with min_history > window_days returns no record and leaves the anomalies
\* table empty; a run of the endpoint with window_days = 7 is such a run, its
\* min_history being 8
C29_LongerHistoryThanWindowFlagsNothing ==
    (run # NoRun /\ run.min_history > run.window_days) =>
        /\ run.out = <<>>
        /\ run.table = <<>>

----------------------------------------------------------------------------
(* C30 *)

\* the values at the positions max(0, i - window_days) .. i - 1 of the series of f, f
\* being at position i
WindowBefore(f) == ValuesOf(SortByDate(InWindow(f, run.window_days)))

\* what the run returned for f: the value, baseline and score of its record, if any
OutcomeOf(f) ==
    {<<r.value, r.baseline, r.score>> :
        r \in {x \in Range(run.out) : x.kpi_name = f.kpi_name /\ x.date = f.date}}

\* C30: two observations with the same values at the window_days positions before them
\* and the same value get the same outcome (a record or none, its baseline and score),
\* whatever their KPI, their dates, their position and the observations after them are;
\* and two flagged observations with the same values before them have the same
\* baseline whatever their own values are
C30_OutcomeDependsOnWindowOnly ==
    run # NoRun =>
        \A f, g \in fact_kpi_daily :
            WindowBefore(f) = WindowBefore(g) =>
                /\ Cardinality(OutcomeOf(f)) <= 1
                /\ f.value = g.value => OutcomeOf(f) = OutcomeOf(g)
                /\ \A x \in OutcomeOf(f), y \in OutcomeOf(g) : x[2] = y[2]

\* two flagged observations of different KPIs at different positions and days: the
\* same values in their windows, another value before the window of the one and
\* after the other, and the same record values
C30_Witness ==
    /\ run # NoRun
    /\ \E f, g \in fact_kpi_daily :
          /\ f.kpi_name # g.kpi_name
          /\ Cardinality(Preceding(f)) < Cardinality(Preceding(g))
          /\ WindowBefore(f) = WindowBefore(g)
          /\ WindowBefore(f) # <<>>
          /\ f.value = g.value
          /\ OutcomeOf(f) # {}
          /\ OutcomeOf(f) = OutcomeOf(g)
          /\ \E h \in Preceding(g) \ InWindow(g, run.window_days) : h.value # g.value
          /\ \E h \in fact_kpi_daily :
                h.kpi_name = f.kpi_name /\ h.date > f.date /\ h.value # f.value

====
